---------------------------- MODULE Spec2Model ----------------------------
(***************************************************************************)
(* postman-gen, static analysis core (package internal/scan).              *)
(*                                                                         *)
(* ScanDir walks a source tree twice: the first pass indexes, per          *)
(* function name, the example body synthesized by the body detector; the   *)
(* second pass turns comment annotations and route-registration calls     *)
(* into Endpoint records and folds them through the add closure, which     *)
(* normalizes and deduplicates them.                                       *)
(*                                                                         *)
(* Go strings are TLA+ strings; a byte is a string of length one.  The     *)
(* parsed file (go/parser's output) is the input: comment groups are       *)
(* sequences of directive lines given by the captures of the directive's   *)
(* regular expression, call expressions are trees of selector calls.       *)
(***************************************************************************)
EXTENDS Integers, Sequences, FiniteSets, TLC

VARIABLES
    opt,                    \* the ScanOptions; opt.Dir is the root ScanDir walks
    tree,                   \* the files below the root, in WalkDir order
    globalProjectAnalysis,  \* package-level variable of body_detector.go
    pc,                     \* position of ScanDir
    fileIdx,                \* file the current pass is at
    nodeIdx,                \* call expression ast.Inspect is at, in that file
    globalFunctionBodies,   \* ScanDir's map: function name -> example body
    seen,                   \* ScanDir's map of deduplication keys
    endpoints,              \* ScanDir's result slice
    err,                    \* ScanDir's returned error ("" for nil)
    scanNo,                 \* number of the ScanDir call in this process
    firstResult,            \* what the previous ScanDir call returned
    ret,                    \* what ScanDirWithOpts returned (Nil before)
    buildOpts,              \* the BuildOpts the collection is built with
    collection              \* what BuildCollection returned (Nil before)

vars == <<opt, tree, globalProjectAnalysis, pc, fileIdx, nodeIdx,
          globalFunctionBodies, seen, endpoints, err, scanNo, firstResult, ret,
          buildOpts, collection>>

-----------------------------------------------------------------------------
(* Package strings, on ASCII text.                                         *)

Lowers == "abcdefghijklmnopqrstuvwxyz"
Uppers == "ABCDEFGHIJKLMNOPQRSTUVWXYZ"
Digits == "0123456789"

Char(s, i) == SubSeq(s, i, i)

CharIn(c, s) == \E i \in 1..Len(s) : Char(s, i) = c

\* unicode.ToUpper and unicode.ToLower on the ASCII letters
UpperOf == [c \in {Char(Lowers, i) : i \in 1..Len(Lowers)} |->
              Char(Uppers, CHOOSE i \in 1..Len(Lowers) : Char(Lowers, i) = c)]

LowerOf == [c \in {Char(Uppers, i) : i \in 1..Len(Uppers)} |->
              Char(Lowers, CHOOSE i \in 1..Len(Uppers) : Char(Uppers, i) = c)]

UpperChar(c) == IF c \in DOMAIN UpperOf THEN UpperOf[c] ELSE c

LowerChar(c) == IF c \in DOMAIN LowerOf THEN LowerOf[c] ELSE c

RECURSIVE ToUpper(_)
ToUpper(s) == IF s = "" THEN "" ELSE UpperChar(Head(s)) \o ToUpper(Tail(s))

RECURSIVE ToLower(_)
ToLower(s) == IF s = "" THEN "" ELSE LowerChar(Head(s)) \o ToLower(Tail(s))

HasPrefix(s, p) == Len(s) >= Len(p) /\ SubSeq(s, 1, Len(p)) = p

HasSuffix(s, p) == Len(s) >= Len(p) /\ SubSeq(s, Len(s) - Len(p) + 1, Len(s)) = p

TrimPrefix(s, p) == IF HasPrefix(s, p) THEN SubSeq(s, Len(p) + 1, Len(s)) ELSE s

TrimSuffix(s, p) == IF HasSuffix(s, p) THEN SubSeq(s, 1, Len(s) - Len(p)) ELSE s

Contains(s, sub) ==
    \E i \in 1..(Len(s) - Len(sub) + 1) : SubSeq(s, i, i + Len(sub) - 1) = sub

\* strings.Count for a one-byte separator
Count(s, c) == Cardinality({i \in 1..Len(s) : Char(s, i) = c})

\* strings.Index for a one-byte separator; 0 stands for Go's -1
Index(s, c) == IF CharIn(c, s) THEN CHOOSE i \in 1..Len(s) :
                   Char(s, i) = c /\ \A j \in 1..(i - 1) : Char(s, j) # c
               ELSE 0

EqualFold(s, t) == ToLower(s) = ToLower(t)

IsSpace(c) == c = " "

RECURSIVE TrimLeft(_)
TrimLeft(s) == IF s # "" /\ IsSpace(Head(s)) THEN TrimLeft(Tail(s)) ELSE s

RECURSIVE TrimRight(_)
TrimRight(s) ==
    IF s # "" /\ IsSpace(Char(s, Len(s))) THEN TrimRight(SubSeq(s, 1, Len(s) - 1)) ELSE s

TrimSpace(s) == TrimRight(TrimLeft(s))

\* strings.Trim(s, cutset) for a one-byte cutset
RECURSIVE TrimChar(_, _)
TrimChar(s, c) ==
    IF s # "" /\ Head(s) = c THEN TrimChar(Tail(s), c)
    ELSE IF s # "" /\ Char(s, Len(s)) = c THEN TrimChar(SubSeq(s, 1, Len(s) - 1), c)
    ELSE s

\* strings.Split(s, sep) for a one-byte separator
RECURSIVE Split(_, _)
Split(s, c) ==
    IF Index(s, c) = 0 THEN <<s>>
    ELSE <<SubSeq(s, 1, Index(s, c) - 1)>> \o Split(SubSeq(s, Index(s, c) + 1, Len(s)), c)

RECURSIVE Join(_, _)
Join(ss, sep) ==
    IF ss = <<>> THEN ""
    ELSE IF Len(ss) = 1 THEN ss[1]
    ELSE ss[1] \o sep \o Join(Tail(ss), sep)

\* strings.Title: the letter that follows a separator (or starts the text) is
\* upper-cased, every other byte is kept; letters, digits and "_" do not separate.
IsSeparator(c) ==
    ~(c \in DOMAIN UpperOf \/ c \in DOMAIN LowerOf \/ CharIn(c, Digits) \/ c = "_")

RECURSIVE TitleFrom(_, _)
TitleFrom(prev, s) ==
    IF s = "" THEN ""
    ELSE (IF IsSeparator(prev) THEN UpperChar(Head(s)) ELSE Head(s))
         \o TitleFrom(Head(s), Tail(s))

Title(s) == TitleFrom(" ", s)

-----------------------------------------------------------------------------
(* scan.go: verbs, string arguments, the path validity filter.             *)

verbSet == {"GET", "POST", "PUT", "DELETE", "PATCH", "HEAD", "OPTIONS"}

isVerb(s) == ToUpper(s) \in verbSet

\* Arguments of a call are records: [kind |-> "str", val |-> text] for a string
\* literal (val is the unquoted text), [kind |-> "ident" | "sel" | "addr",
\* val |-> name] for an identifier, the trailing name of a selector and the
\* identifier under a unary operator, [kind |-> "other", val |-> ""] otherwise.
RECURSIVE stringArgs(_)
stringArgs(args) ==
    IF args = <<>> THEN <<>>
    ELSE LET a == Head(args)
             s == ToUpper(TrimSpace(a.val))
         IN  (IF a.kind = "str" /\ s \in verbSet THEN <<s>> ELSE <<>>)
             \o stringArgs(Tail(args))

invalidPatterns ==
    <<"/X-Request-ID", "/Content-Type", "/Authorization", "/Accept", "/User-Agent">>

\* isValidEndpointPath without the list of header names
isValidWithoutPatterns(path) ==
    IF path = "" THEN FALSE
    ELSE IF ~HasPrefix(path, "/") THEN FALSE
    ELSE IF /\ Count(path, "-") > 0
            /\ Count(path, "/") = 1
            /\ Contains(TrimPrefix(path, "/"), "-")
            /\ Title(TrimPrefix(path, "/")) = TrimPrefix(path, "/") THEN FALSE
    ELSE IF Len(TrimPrefix(path, "/")) < 2 THEN FALSE
    ELSE TRUE

isValidEndpointPath(path) ==
    IF path = "" THEN FALSE
    ELSE IF ~HasPrefix(path, "/") THEN FALSE
    ELSE IF \E i \in DOMAIN invalidPatterns : EqualFold(path, invalidPatterns[i]) THEN FALSE
    ELSE IF /\ Count(path, "-") > 0
            /\ Count(path, "/") = 1
            /\ Contains(TrimPrefix(path, "/"), "-")
            /\ Title(TrimPrefix(path, "/")) = TrimPrefix(path, "/") THEN FALSE
    ELSE IF Len(TrimPrefix(path, "/")) < 2 THEN FALSE
    ELSE TRUE

guessHandlerName(call) ==
    IF Len(call.args) >= 2 /\ call.args[2].kind \in {"ident", "sel"}
    THEN call.args[2].val
    ELSE ""

\* A call expression whose Fun is a selector: [sel |-> the selected name,
\* xname |-> the receiver when it is an identifier ("" otherwise),
\* x |-> <<c>> when the receiver is itself such a call c (<<>> otherwise),
\* args |-> its arguments].
findChainedMethods(n) ==
    IF n.sel = "Methods" THEN stringArgs(n.args)
    ELSE IF n.x # <<>> /\ n.x[1].sel = "Methods" THEN stringArgs(n.x[1].args)
    ELSE <<>>

-----------------------------------------------------------------------------
(* body_detector.go: the example values.                                   *)

UserShape    == "{\"name\":\"string\",\"email\":\"string\",\"id\":\"string\"}"
CreateShape  == "{\"name\":\"string\",\"value\":\"string\",\"type\":\"string\"}"
UpdateShape  == "{\"id\":\"string\",\"name\":\"string\",\"value\":\"string\"}"
DeleteShape  == "{\"id\":\"string\",\"reason\":\"string\"}"
RequestShape == "{\"data\":\"string\",\"parameters\":{}}"
DefaultShape ==
    "{\"id\":\"string\",\"name\":\"string\",\"value\":\"string\",\"timestamp\":\"2024-01-01T00:00:00Z\"}"

\* generateBodyByVariableName with the request case ahead of the update case
generateBodyRequestFirst(varName) ==
    LET lowerName == ToLower(varName)
    IN  IF Contains(lowerName, "user") THEN UserShape
        ELSE IF Contains(lowerName, "create") \/ Contains(lowerName, "post") THEN CreateShape
        ELSE IF Contains(lowerName, "request") \/ Contains(lowerName, "req") THEN RequestShape
        ELSE IF \/ Contains(lowerName, "update")
                \/ Contains(lowerName, "put")
                \/ Contains(lowerName, "patch") THEN UpdateShape
        ELSE IF Contains(lowerName, "delete") THEN DeleteShape
        ELSE DefaultShape

generateBodyByVariableName(varName) ==
    LET lowerName == ToLower(varName)
    IN  IF Contains(lowerName, "user") THEN UserShape
        ELSE IF Contains(lowerName, "create") \/ Contains(lowerName, "post") THEN CreateShape
        ELSE IF \/ Contains(lowerName, "update")
                \/ Contains(lowerName, "put")
                \/ Contains(lowerName, "patch") THEN UpdateShape
        ELSE IF Contains(lowerName, "delete") THEN DeleteShape
        ELSE IF Contains(lowerName, "request") \/ Contains(lowerName, "req") THEN RequestShape
        ELSE DefaultShape

RECURSIVE generateValueForType(_)
generateValueForType(goType) ==
    IF goType = "string" THEN "\"string\""
    ELSE IF goType \in {"int", "int32", "int64", "uint", "uint32", "uint64"} THEN "0"
    ELSE IF goType \in {"float32", "float64"} THEN "0.0"
    ELSE IF goType = "bool" THEN "false"
    ELSE IF HasPrefix(goType, "[]")
         THEN "[" \o generateValueForType(TrimPrefix(goType, "[]")) \o "]"
    ELSE IF HasPrefix(goType, "map[") THEN "{}"
    ELSE IF goType \in {"interface{}", "any"} THEN "\"string\""
    ELSE "\"string\""

\* The json name of a struct tag (the text between the back quotes).
RECURSIVE extractFromParts(_)
extractFromParts(parts) ==
    IF parts = <<>> THEN ""
    ELSE LET part     == Head(parts)
             trimmed  == TrimChar(TrimPrefix(part, "json:"), "\"")
             idx      == Index(trimmed, ",")
             jsonPart == IF idx # 0 THEN SubSeq(trimmed, 1, idx - 1) ELSE trimmed
         IN  IF HasPrefix(part, "json:") /\ jsonPart # "-" /\ jsonPart # ""
             THEN jsonPart
             ELSE extractFromParts(Tail(parts))

extractJSONTag(tag) == extractFromParts(Split(tag, " "))

-----------------------------------------------------------------------------
(* Go values: maps, nil.                                                   *)

EmptyMap == [k \in {} |-> ""]

\* m[k] of a map[string]string: the zero value for a missing key
Lookup(m, k) == IF k \in DOMAIN m THEN m[k] ELSE ""

Put(m, k, v) == [x \in DOMAIN m \cup {k} |-> IF x = k THEN v ELSE m[x]]

\* a nil pointer
Nil == [nil |-> TRUE]

-----------------------------------------------------------------------------
(* project_analyzer.go: the struct index of the whole tree.                *)

\* A field of a struct type: [Names |-> its names (none: embedded),
\* Type |-> getTypeString of its type, Tag |-> <<text>> when it has a tag
\* (the text between the back quotes), <<>> when it has none].
analyzeStructField(field) ==
    IF Len(field.Names) = 0
    THEN <<[Name |-> field.Type, Type |-> field.Type, JSONTag |-> ""]>>
    ELSE [i \in 1..Len(field.Names) |->
            [Name    |-> field.Names[i],
             Type    |-> field.Type,
             JSONTag |-> IF field.Tag # <<>> /\ extractJSONTag(field.Tag[1]) # ""
                         THEN extractJSONTag(field.Tag[1])
                         ELSE ToLower(field.Names[i])]]

RECURSIVE FieldInfos(_)
FieldInfos(fields) ==
    IF fields = <<>> THEN <<>>
    ELSE analyzeStructField(Head(fields)) \o FieldInfos(Tail(fields))

\* A struct type declaration of a file: [Name, Fields]; the file names its package.
analyzeTypeSpec(structs, spec, packageName, filePath) ==
    Put(structs, packageName \o "." \o spec.Name,
        [Name    |-> spec.Name,
         Fields  |-> FieldInfos(spec.Fields),
         Package |-> packageName,
         File    |-> filePath])

RECURSIVE analyzeDecls(_, _, _, _)
analyzeDecls(structs, specs, packageName, filePath) ==
    IF specs = <<>> THEN structs
    ELSE analyzeDecls(analyzeTypeSpec(structs, Head(specs), packageName, filePath),
                      Tail(specs), packageName, filePath)

analyzeFile(structs, file) == analyzeDecls(structs, file.types, file.pkg, file.name)

RECURSIVE analyzeFiles(_, _)
analyzeFiles(structs, files) ==
    IF files = <<>> THEN structs
    ELSE analyzeFiles(analyzeFile(structs, Head(files)), Tail(files))

DTOSuffixes == <<"request", "req", "dto", "model", "entity", "response", "resp">>

\* The names are collected in map order; only membership is used.
detectDTOPatterns(structs) ==
    {structs[q].Name : q \in {k \in DOMAIN structs :
        \E i \in DOMAIN DTOSuffixes : HasSuffix(ToLower(k), DTOSuffixes[i])}}

\* os.DirEntry.Name() of the root entry WalkDir hands to the callback first:
\* the last element of the path, trailing slashes dropped.
RECURSIVE rootEntryName(_)
rootEntryName(dir) ==
    IF Len(dir) > 1 /\ HasSuffix(dir, "/") THEN rootEntryName(SubSeq(dir, 1, Len(dir) - 1))
    ELSE IF \E i \in 1..Len(dir) : Char(dir, i) = "/"
    THEN LET last == CHOOSE i \in 1..Len(dir) :
                        /\ Char(dir, i) = "/"
                        /\ \A j \in (i + 1)..Len(dir) : Char(dir, j) # "/"
         IN  IF last = Len(dir) THEN dir ELSE SubSeq(dir, last + 1, Len(dir))
    ELSE dir

\* filepath.Join(root, rel) for a clean relative root
walkPath(dir, rel) == IF dir = "." THEN rel ELSE dir \o "/" \o rel

\* The file test of the callbacks.
isGoSource(path) == HasSuffix(path, ".go") /\ ~HasSuffix(path, "_test.go")

\* shouldSkipDir of project_analyzer.go
SkipDirs == <<"vendor", ".git", ".vscode", ".idea", "node_modules",
              "__pycache__", ".pytest_cache", "build", "dist">>

shouldSkipDir(dirName) ==
    \/ \E i \in DOMAIN SkipDirs : dirName = SkipDirs[i]
    \/ HasPrefix(dirName, ".")

\* The walk of AnalyzeProject: the root is the first directory the callback
\* is asked about; a skipped directory hides everything below it.
analyzedFiles(rootDir, below) ==
    IF shouldSkipDir(rootEntryName(rootDir)) THEN <<>>
    ELSE SelectSeq(below, LAMBDA f :
             /\ \A i \in DOMAIN f.dirs : ~shouldSkipDir(f.dirs[i])
             /\ isGoSource(f.name))

\* analysis.Packages as analyzeFile fills it: per package clause, the imports
\* of its files in walk order.
RECURSIVE importsOf(_, _)
importsOf(files, packageName) ==
    IF files = <<>> THEN <<>>
    ELSE (IF Head(files).pkg = packageName THEN Head(files).imports ELSE <<>>)
         \o importsOf(Tail(files), packageName)

collectPackages(files) ==
    [packageName \in {files[i].pkg : i \in DOMAIN files} |->
        [Name    |-> packageName,
         Imports |-> importsOf(files, packageName),
         IsMain  |-> packageName = "main"]]

\* detectModuleName: "" when go.mod cannot be read or has no module line
detectModuleName(rootDir, below) ==
    LET found == {i \in DOMAIN below : below[i].name = walkPath(rootDir, "go.mod")}
    IN  IF found = {} THEN ""
        ELSE LET lines  == below[CHOOSE i \in found : TRUE].lines
                 hits   == {k \in DOMAIN lines : HasPrefix(TrimSpace(lines[k]), "module ")}
             IN  IF hits = {} THEN ""
                 ELSE LET k == CHOOSE k \in hits : \A j \in hits : k <= j
                      IN  TrimSpace(TrimPrefix(TrimSpace(lines[k]), "module"))

\* The keyword lists of the three package-name detectors.
cleanPatterns ==
    <<"domain", "entity", "entities", "usecase", "usecases", "application",
      "repository", "repositories", "infrastructure", "handler", "handlers",
      "delivery", "transport", "service", "services">>

mvcPatterns == <<"model", "view", "controller">>

layerPatterns ==
    <<"api", "web", "http", "business", "logic", "service",
      "data", "dal", "persistence", "common", "shared", "utils">>

\* The number of keywords some package name contains.
keywordHits(patterns, packageNames) ==
    Cardinality({k \in DOMAIN patterns :
        \E pkg \in packageNames : Contains(ToLower(pkg), patterns[k])})

\* The scores are fractions of 1; they are kept in sixtieths, the common
\* denominator of score/15, score/3, score/12 and the tenths of the
\* microservice score.
detectCleanArchitecture(packageNames) == (60 * keywordHits(cleanPatterns, packageNames)) \div 15

detectMVC(packageNames) == (60 * keywordHits(mvcPatterns, packageNames)) \div 3

detectLayeredArchitecture(packageNames) ==
    (60 * keywordHits(layerPatterns, packageNames)) \div 12

RECURSIVE rpcImports(_)
rpcImports(imports) ==
    IF imports = <<>> THEN 0
    ELSE (IF Contains(Head(imports), "grpc") \/ Contains(Head(imports), "protobuf")
          THEN 1 ELSE 0) + rpcImports(Tail(imports))

RECURSIVE sumOver(_, _)
sumOver(S, packages) ==
    IF S = {} THEN 0
    ELSE LET q == CHOOSE q \in S : TRUE
         IN  rpcImports(packages[q].Imports) + sumOver(S \ {q}, packages)

detectMicroservicePattern(packages) ==
    LET score == 18 * sumOver(DOMAIN packages, packages)
                 + (IF "main" \in DOMAIN packages THEN 12 ELSE 0)
                 + 12 * Cardinality({q \in DOMAIN packages :
                       Contains(ToLower(q), "config") \/ Contains(ToLower(q), "env")})
    IN  IF score > 60 THEN 60 ELSE score

\* detectArchitecturePattern: clean is the starting choice, a later family
\* replaces it only with a strictly higher score.  Layers is in map order;
\* only membership is kept.
detectArchitecturePattern(packages, structs) ==
    LET packageNames      == DOMAIN packages \ {"main"}
        cleanScore        == detectCleanArchitecture(packageNames)
        mvcScore          == detectMVC(packageNames)
        layeredScore      == detectLayeredArchitecture(packageNames)
        microserviceScore == detectMicroservicePattern(packages)
        afterMVC     == IF mvcScore > cleanScore
                        THEN [Type |-> "mvc", Confidence |-> mvcScore]
                        ELSE [Type |-> "clean", Confidence |-> cleanScore]
        afterLayered == IF layeredScore > afterMVC.Confidence
                        THEN [Type |-> "layered", Confidence |-> layeredScore]
                        ELSE afterMVC
        final        == IF microserviceScore > afterLayered.Confidence
                        THEN [Type |-> "microservice", Confidence |-> microserviceScore]
                        ELSE afterLayered
    IN  [Type        |-> final.Type,
         Confidence  |-> final.Confidence,
         Layers      |-> packageNames,
         DTOPatterns |-> detectDTOPatterns(structs)]

\* The error AnalyzeProject returns: "" for nil, else the wrapped error of
\* the first file of the walk that does not parse.
analyzeProjectError(rootDir, below) ==
    LET files  == analyzedFiles(rootDir, below)
        broken == {i \in DOMAIN files : files[i].broken}
    IN  IF broken = {} THEN ""
        ELSE "failed to analyze project: failed to parse "
             \o files[CHOOSE i \in broken : \A j \in broken : i <= j].name
             \o ": syntax error"

\* An analysis that leaves out the files that do not parse.
AnalyzeProjectLenient(rootDir, below) ==
    LET files   == SelectSeq(analyzedFiles(rootDir, below), LAMBDA f : ~f.broken)
        structs == analyzeFiles(EmptyMap, files)
    IN  [Structs     |-> structs,
         Packages    |-> collectPackages(files),
         ModuleName  |-> detectModuleName(rootDir, below),
         ArchPattern |-> detectArchitecturePattern(collectPackages(files), structs)]

\* nil and an error when a file does not parse
AnalyzeProject(rootDir, below) ==
    LET files == analyzedFiles(rootDir, below)
    IN  IF analyzeProjectError(rootDir, below) # "" THEN Nil
        ELSE LET structs  == analyzeFiles(EmptyMap, files)
                 packages == collectPackages(files)
             IN  [Structs     |-> structs,
                  Packages    |-> packages,
                  ModuleName  |-> detectModuleName(rootDir, below),
                  ArchPattern |-> detectArchitecturePattern(packages, structs)]

-----------------------------------------------------------------------------
(* body_detector.go: detection of a body-consuming call and its example.   *)

checkGinJSONBinding(call) == call.sel \in {"ShouldBindJSON", "BindJSON", "ShouldBind", "Bind"}

checkJSONDecoder(call) ==
    call.sel = "Decode" /\ call.x # <<>> /\ call.x[1].sel = "NewDecoder"

checkJSONUnmarshal(call) == call.xname = "json" /\ call.sel = "Unmarshal"

checkIOReadAll(call) == call.xname = "io" /\ call.sel = "ReadAll"

IsBodyIdiom(call) ==
    \/ checkGinJSONBinding(call)
    \/ checkJSONDecoder(call)
    \/ checkJSONUnmarshal(call)
    \/ checkIOReadAll(call)

\* Only the first name of a field is read; a tag without "json:" is not parsed.
analyzeInlineStruct(fields) ==
    [Name   |-> "InlineStruct",
     Fields |-> [i \in 1..Len(fields) |->
        LET f    == fields[i]
            name == IF Len(f.Names) > 0 THEN f.Names[1] ELSE ""
            tag  == IF f.Tag # <<>> /\ Contains(f.Tag[1], "json:")
                    THEN extractJSONTag(f.Tag[1]) ELSE ""
        IN  [Name    |-> name,
             Type    |-> f.Type,
             JSONTag |-> IF tag = "" THEN ToLower(name) ELSE tag]]]

\* A statement of a function body: [kind |-> "var", fields |-> F] declares a
\* variable of inline struct type F, [kind |-> "lit", fields |-> F] assigns a
\* composite literal of inline struct type F, [kind |-> "call", call |-> c]
\* evaluates the call c.  ast.Inspect goes on with the next statement after the
\* callback returned false, so a later inline struct replaces an earlier one.
RECURSIVE scanStructUsageFrom(_, _)
scanStructUsageFrom(structInfo, stmts) ==
    IF stmts = <<>> THEN structInfo
    ELSE scanStructUsageFrom(
            IF Head(stmts).kind \in {"var", "lit"}
            THEN analyzeInlineStruct(Head(stmts).fields)
            ELSE structInfo,
            Tail(stmts))

scanStructUsage(fn) == scanStructUsageFrom(Nil, fn.stmts)

RECURSIVE jsonPairs(_)
jsonPairs(fields) ==
    IF fields = <<>> THEN <<>>
    ELSE <<"\"" \o Head(fields).JSONTag \o "\":" \o generateValueForType(Head(fields).Type)>>
         \o jsonPairs(Tail(fields))

generateJSONFromStruct(structInfo) ==
    IF Len(structInfo.Fields) = 0 THEN "{}"
    ELSE "{" \o Join(jsonPairs(structInfo.Fields), ",") \o "}"

RECURSIVE projectPairs(_)
projectPairs(fields) ==
    IF fields = <<>> THEN <<>>
    ELSE LET field == Head(fields)
             jsonTag == IF field.JSONTag = "" THEN ToLower(field.Name) ELSE field.JSONTag
         IN  (IF field.JSONTag = "-" THEN <<>>
              ELSE <<"\"" \o jsonTag \o "\":" \o generateValueForType(field.Type)>>)
             \o projectPairs(Tail(fields))

generateJSONFromProjectStruct(structDef) ==
    IF Len(structDef.Fields) = 0 THEN "{}"
    ELSE "{" \o Join(projectPairs(structDef.Fields), ",") \o "}"

RECURSIVE stripSuffix(_, _)
stripSuffix(name, suffixes) ==
    IF suffixes = <<>> THEN name
    ELSE IF HasSuffix(name, Head(suffixes)) THEN TrimSuffix(name, Head(suffixes))
    ELSE stripSuffix(name, Tail(suffixes))

\* isStructNameMatch that compares the names as they are, without removing a
\* suffix from the struct name
isStructNameExact(varName, structName) ==
    Contains(varName, structName) \/ Contains(structName, varName)

isStructNameMatch(varName, structName) ==
    LET cleanStructName == stripSuffix(structName, DTOSuffixes)
    IN  Contains(varName, cleanStructName) \/ Contains(cleanStructName, varName)

\* The structs of the index that the loop over analysis.Structs may return for
\* the identifier: the loop returns at the first match, in map order.
\* A matching step that only accepts the structs listed as DTO patterns
MatchingDTOStructs(identName, analysis) ==
    {q \in DOMAIN analysis.Structs :
        /\ analysis.Structs[q].Name \in analysis.ArchPattern.DTOPatterns
        /\ Contains(ToLower(analysis.Structs[q].Name), ToLower(identName))}

MatchingStructs(identName, analysis) ==
    {q \in DOMAIN analysis.Structs :
        LET lowerStructName == ToLower(analysis.Structs[q].Name)
            lowerVarName    == ToLower(identName)
        IN  \/ Contains(lowerStructName, lowerVarName)
            \/ Contains(lowerVarName, lowerStructName)
            \/ isStructNameMatch(lowerVarName, lowerStructName)}

IsAddr(args, i) == Len(args) >= i /\ args[i].kind = "addr"

\* Every value generateBodyFromProjectAnalysis can return: Go does not fix the
\* order in which a map is ranged over.
generateBodyFromProjectAnalysis(call, analysis) ==
    LET args   == call.args
        first  == IF IsAddr(args, 1) THEN MatchingStructs(args[1].val, analysis) ELSE {}
        second == IF IsAddr(args, 2) THEN MatchingStructs(args[2].val, analysis) ELSE {}
        targetTypeName == IF IsAddr(args, 2) THEN args[2].val
                          ELSE IF IsAddr(args, 1) THEN args[1].val
                          ELSE ""
        dto == {d \in analysis.ArchPattern.DTOPatterns :
                   /\ targetTypeName # ""
                   /\ Contains(ToLower(d), ToLower(targetTypeName))
                   /\ d \in DOMAIN analysis.Structs}
    IN  IF first # {}
        THEN {generateJSONFromProjectStruct(analysis.Structs[q]) : q \in first}
        ELSE IF second # {}
        THEN {generateJSONFromProjectStruct(analysis.Structs[q]) : q \in second}
        ELSE IF dto # {}
        THEN {generateJSONFromProjectStruct(analysis.Structs[d]) : d \in dto}
        ELSE {""}

\* The example of a matched call once the project index gave nothing.
localBodyExample(call, structInfo) ==
    IF structInfo # Nil /\ Len(structInfo.Fields) > 0 THEN generateJSONFromStruct(structInfo)
    ELSE IF IsAddr(call.args, 1) THEN generateBodyByVariableName(call.args[1].val)
    ELSE IF IsAddr(call.args, 2) THEN generateBodyByVariableName(call.args[2].val)
    ELSE RequestShape

\* generateSmartBodyExample that asks the local struct before the project index
generateSmartBodyLocalFirst(call, structInfo, analysis) ==
    IF structInfo # Nil /\ Len(structInfo.Fields) > 0 THEN {generateJSONFromStruct(structInfo)}
    ELSE LET fromProject == IF analysis # Nil
                            THEN generateBodyFromProjectAnalysis(call, analysis)
                            ELSE {""}
         IN  {IF body # "" THEN body ELSE localBodyExample(call, structInfo) :
                 body \in fromProject}

\* Every value generateSmartBodyExample can return.
generateSmartBodyExample(call, structInfo, analysis) ==
    LET fromProject == IF analysis # Nil
                       THEN generateBodyFromProjectAnalysis(call, analysis)
                       ELSE {""}
    IN  {IF body # "" THEN body ELSE localBodyExample(call, structInfo) :
            body \in fromProject}

\* The calls of a function body in the order ast.Inspect reaches them; the
\* receiver of a matched call is not entered.
RECURSIVE inspectCall(_)
inspectCall(call) ==
    IF IsBodyIdiom(call) \/ call.x = <<>> THEN <<call>>
    ELSE <<call>> \o inspectCall(call.x[1])

RECURSIVE inspectBody(_)
inspectBody(stmts) ==
    IF stmts = <<>> THEN <<>>
    ELSE (IF Head(stmts).kind = "call" THEN inspectCall(Head(stmts).call) ELSE <<>>)
         \o inspectBody(Tail(stmts))

matchedCalls(fn) == SelectSeq(inspectBody(fn.stmts), IsBodyIdiom)

\* Every result DetectJSONBody can return: a later matching call overwrites
\* the result of an earlier one.
DetectJSONBody(fn, analysis) ==
    IF ~fn.hasBody \/ matchedCalls(fn) = <<>>
    THEN {[HasBody |-> FALSE, BodyExample |-> ""]}
    ELSE {[HasBody |-> TRUE, BodyExample |-> b] :
            b \in generateSmartBodyExample(matchedCalls(fn)[Len(matchedCalls(fn))],
                                           scanStructUsage(fn), analysis)}

DetectBodyFromFunction(fn, analysis) ==
    {IF r.HasBody THEN r.BodyExample ELSE "" : r \in DetectJSONBody(fn, analysis)}

\* scanFunctionsForBodies that keeps an entry for every function
RECURSIVE scanFunctionsKeepEmpty(_, _)
scanFunctionsKeepEmpty(funcs, analysis) ==
    IF funcs = <<>> THEN {EmptyMap}
    ELSE LET fn == funcs[Len(funcs)]
         IN  {Put(m, fn.name, body) :
                m \in scanFunctionsKeepEmpty(SubSeq(funcs, 1, Len(funcs) - 1), analysis),
                body \in DetectBodyFromFunction(fn, analysis)}

\* Every map scanFunctionsForBodies can return for the function declarations
\* of a file.
RECURSIVE scanFunctionsForBodies(_, _)
scanFunctionsForBodies(funcs, analysis) ==
    IF funcs = <<>> THEN {EmptyMap}
    ELSE LET fn == funcs[Len(funcs)]
         IN  {IF body # "" THEN Put(m, fn.name, body) ELSE m :
                m \in scanFunctionsForBodies(SubSeq(funcs, 1, Len(funcs) - 1), analysis),
                body \in DetectBodyFromFunction(fn, analysis)}

\* a first pass that keeps the bodies of the last file only
MergeBodiesLastFile(global, fileBodies) == fileBodies

\* the loop of the first pass: globalFunctionBodies[funcName] = body
MergeBodies(global, fileBodies) ==
    [k \in DOMAIN global \cup DOMAIN fileBodies |->
        IF k \in DOMAIN fileBodies THEN fileBodies[k] ELSE global[k]]

-----------------------------------------------------------------------------
(* scan.go: annotations.                                                   *)

\* A comment group is [lines |-> its lines]; a line is given by the directive it matches and the
\* captures of that directive's expression: [kind |-> "route" | "rest",
\* a |-> method, b |-> path, c |-> description], [kind |-> "graphql",
\* a |-> operation, b |-> path, c |-> description], [kind |-> "header",
\* a |-> key, b |-> value], [kind |-> "body" | "tag" | "schema" | "query" |
\* "variables", a |-> text]; [kind |-> "text"] is a line that matches none.
IsAnnotation(line) == line.kind # "text"

coerceMethod(m) == IF ToUpper(m) \in verbSet THEN ToUpper(m) ELSE "ANY"

RECURSIVE annotationRoutes(_)
annotationRoutes(annotations) ==
    IF annotations = <<>> THEN <<>>
    ELSE LET line == Head(annotations)
         IN  (IF line.kind = "graphql"
              THEN <<[method |-> "POST", path |-> line.b, desc |-> TrimSpace(line.c),
                      routeType |-> "GraphQL", operation |-> ToLower(line.a)]>>
              ELSE IF line.kind \in {"rest", "route"}
              THEN <<[method |-> coerceMethod(line.a), path |-> line.b,
                      desc |-> TrimSpace(line.c), routeType |-> "REST", operation |-> ""]>>
              ELSE <<>>)
             \o annotationRoutes(Tail(annotations))

RECURSIVE accHeaders(_, _)
accHeaders(acc, annotations) ==
    IF annotations = <<>> THEN acc
    ELSE LET line == Head(annotations)
         IN  accHeaders(IF line.kind = "header" /\ TrimSpace(line.a) # ""
                        THEN Put(acc, TrimSpace(line.a), TrimSpace(line.b))
                        ELSE acc,
                        Tail(annotations))

\* accText that keeps the first directive of the kind
RECURSIVE accTextFirst(_, _, _)
accTextFirst(acc, kind, annotations) ==
    IF annotations = <<>> THEN acc
    ELSE accTextFirst(IF Head(annotations).kind = kind /\ acc = ""
                      THEN TrimSpace(Head(annotations).a) ELSE acc,
                      kind, Tail(annotations))

RECURSIVE accText(_, _, _)
accText(acc, kind, annotations) ==
    IF annotations = <<>> THEN acc
    ELSE accText(IF Head(annotations).kind = kind THEN TrimSpace(Head(annotations).a) ELSE acc,
                 kind, Tail(annotations))

contains(ss, s) == \E i \in DOMAIN ss : ss[i] = s

RECURSIVE accTags(_, _)
accTags(acc, annotations) ==
    IF annotations = <<>> THEN acc
    ELSE LET line == Head(annotations)
             tag  == TrimSpace(line.a)
         IN  accTags(IF line.kind = "tag" /\ tag # "" /\ ~contains(acc, tag)
                     THEN Append(acc, tag)
                     ELSE acc,
                     Tail(annotations))

\* accGraphQL after the loop over the lines, and after the first GraphQL route
\* gave it its operation: every GraphQL endpoint of the group points to it.
accGraphQL(annotations, routes) ==
    LET gql == SelectSeq(routes, LAMBDA r : r.routeType = "GraphQL")
    IN  [Operation |-> IF gql = <<>> THEN "" ELSE gql[1].operation,
         Schema    |-> accText("", "schema", annotations),
         Query     |-> accText("", "query", annotations),
         Variables |-> accText("", "variables", annotations)]

groupEndpoints(cg, sourcePath) ==
    LET annotations == SelectSeq(cg.lines, IsAnnotation)
        routes      == annotationRoutes(annotations)
    IN  [i \in 1..Len(routes) |->
            [Method     |-> routes[i].method,
             Path       |-> routes[i].path,
             SourceFile |-> sourcePath,
             Handler    |-> "",
             Desc       |-> routes[i].desc,
             Headers    |-> accHeaders(EmptyMap, annotations),
             BodyRaw    |-> accText("", "body", annotations),
             Tags       |-> accTags(<<>>, annotations),
             Type       |-> routes[i].routeType,
             GraphQL    |-> IF routes[i].routeType = "GraphQL"
                            THEN accGraphQL(annotations, routes)
                            ELSE Nil]]

RECURSIVE scanAnnotationsFromFile(_, _)
scanAnnotationsFromFile(groups, sourcePath) ==
    IF groups = <<>> THEN <<>>
    ELSE groupEndpoints(Head(groups), sourcePath)
         \o scanAnnotationsFromFile(Tail(groups), sourcePath)

-----------------------------------------------------------------------------
(* scan.go: ScanDir.                                                       *)

\* A key that leaves the tags out.
endpointKeyWithoutTags(e) ==
    ToUpper(e.Method) \o " " \o e.Path \o " " \o e.SourceFile

endpointKey(e) ==
    ToUpper(e.Method) \o " " \o e.Path \o " " \o e.SourceFile \o " " \o Join(e.Tags, ",")

\* add without the leading-slash normalization of the path
addKeepsPath(acc, e0) ==
    LET e1 == IF e0.Method = "" THEN [e0 EXCEPT !.Method = "ANY"] ELSE e0
        e3 == IF e1.Type = "" THEN [e1 EXCEPT !.Type = "REST"] ELSE e1
        key == endpointKey(e3)
    IN  IF key \in acc.seen THEN acc
        ELSE [seen      |-> acc.seen \cup {key},
              endpoints |-> Append(acc.endpoints, [e3 EXCEPT !.Method = ToUpper(e3.Method)])]

\* add that appends without looking the key up in seen
addNoLookup(acc, e0) ==
    LET e1 == IF e0.Method = "" THEN [e0 EXCEPT !.Method = "ANY"] ELSE e0
        e2 == IF ~HasPrefix(e1.Path, "/") THEN [e1 EXCEPT !.Path = "/" \o e1.Path] ELSE e1
        e3 == IF e2.Type = "" THEN [e2 EXCEPT !.Type = "REST"] ELSE e2
    IN  [seen      |-> acc.seen \cup {endpointKey(e3)},
         endpoints |-> Append(acc.endpoints, [e3 EXCEPT !.Method = ToUpper(e3.Method)])]

\* The add closure, on the pair of the result slice and the seen map.
add(acc, e0) ==
    LET e1 == IF e0.Method = "" THEN [e0 EXCEPT !.Method = "ANY"] ELSE e0
        e2 == IF ~HasPrefix(e1.Path, "/") THEN [e1 EXCEPT !.Path = "/" \o e1.Path] ELSE e1
        e3 == IF e2.Type = "" THEN [e2 EXCEPT !.Type = "REST"] ELSE e2
        key == endpointKey(e3)
    IN  IF key \in acc.seen THEN acc
        ELSE [seen      |-> acc.seen \cup {key},
              endpoints |-> Append(acc.endpoints, [e3 EXCEPT !.Method = ToUpper(e3.Method)])]

RECURSIVE addAll(_, _)
addAll(acc, es) == IF es = <<>> THEN acc ELSE addAll(add(acc, Head(es)), Tail(es))

\* Endpoint{...} of a route call: the fields the literal does not set are zero.
callEndpoint(method, path, sourceFile, handler, body, type, graphql) ==
    [Method     |-> method,
     Path       |-> path,
     SourceFile |-> sourceFile,
     Handler    |-> handler,
     Desc       |-> "",
     Headers    |-> EmptyMap,
     BodyRaw    |-> body,
     Tags       |-> <<>>,
     Type       |-> type,
     GraphQL    |-> graphql]

hasPathLiteral(call) ==
    Len(call.args) >= 1 /\ call.args[1].kind = "str" /\ isValidEndpointPath(call.args[1].val)

handlerBody(call, bodies) ==
    IF guessHandlerName(call) # "" /\ Lookup(bodies, guessHandlerName(call)) # ""
    THEN Lookup(bodies, guessHandlerName(call))
    ELSE ""

\* *.Methods("GET", "POST") chained from HandleFunc or Handle
methodsChainEndpoints(call, sourceFile) ==
    IF /\ call.sel = "Methods" /\ Len(call.args) >= 1
       /\ call.x # <<>>
       /\ call.x[1].sel \in {"HandleFunc", "Handle"}
       /\ hasPathLiteral(call.x[1])
    THEN LET methods == stringArgs(call.args)
         IN  [i \in 1..Len(methods) |->
                callEndpoint(methods[i], call.x[1].args[1].val, sourceFile,
                             guessHandlerName(call.x[1]), "", "REST", Nil)]
    ELSE <<>>

\* chi-like: r.Get("/path", handler)
verbEndpoints(call, sourceFile, bodies) ==
    IF isVerb(call.sel) /\ hasPathLiteral(call)
    THEN <<callEndpoint(ToUpper(call.sel), call.args[1].val, sourceFile,
                        guessHandlerName(call), handlerBody(call, bodies), "REST", Nil)>>
    ELSE <<>>

isGraphQLPath(p) ==
    \/ Contains(ToLower(p), "graphql")
    \/ Contains(ToLower(p), "graph")
    \/ HasSuffix(ToLower(p), "/query")

\* GraphQL endpoints detection (only for POST method)
postEndpoints(call, sourceFile, bodies) ==
    IF call.sel = "POST" /\ hasPathLiteral(call)
    THEN IF isGraphQLPath(call.args[1].val)
         THEN <<callEndpoint("POST", call.args[1].val, sourceFile, guessHandlerName(call),
                             "", "GraphQL",
                             [Operation |-> "query", Schema |-> "", Query |-> "",
                              Variables |-> ""])>>
         ELSE <<callEndpoint("POST", call.args[1].val, sourceFile, guessHandlerName(call),
                             handlerBody(call, bodies), "REST", Nil)>>
    ELSE <<>>

\* handleEndpoints that gives the body only to POST, PUT and PATCH
handleEndpointsBodyless(call, name, sourceFile, bodies) ==
    IF call.sel = name /\ hasPathLiteral(call)
    THEN LET methods == findChainedMethods(call)
             handler == guessHandlerName(call)
             body    == handlerBody(call, bodies)
             p       == call.args[1].val
         IN  IF Len(methods) = 0
             THEN <<callEndpoint("ANY", p, sourceFile, handler, "", "REST", Nil)>>
             ELSE [i \in 1..Len(methods) |->
                    callEndpoint(methods[i], p, sourceFile, handler,
                                 IF methods[i] \in {"POST", "PUT", "PATCH"} /\ body # ""
                                 THEN body ELSE "",
                                 "REST", Nil)]
    ELSE <<>>

\* net/http and gorilla: *.HandleFunc("/path", h), *.Handle("/path", h)
handleEndpoints(call, name, sourceFile, bodies) ==
    IF call.sel = name /\ hasPathLiteral(call)
    THEN LET methods == findChainedMethods(call)
             handler == guessHandlerName(call)
             body    == handlerBody(call, bodies)
             p       == call.args[1].val
         IN  IF Len(methods) = 0
             THEN <<callEndpoint("ANY", p, sourceFile, handler, body, "REST", Nil)>>
             ELSE [i \in 1..Len(methods) |->
                    callEndpoint(methods[i], p, sourceFile, handler,
                                 IF methods[i] \in {"POST", "PUT", "PATCH"} /\ body # ""
                                 THEN body ELSE "",
                                 "REST", Nil)]
    ELSE <<>>

\* The endpoints the callback of ast.Inspect hands to add for one call
\* expression, in order.
callEndpoints(call, sourceFile, bodies) ==
    methodsChainEndpoints(call, sourceFile)
    \o verbEndpoints(call, sourceFile, bodies)
    \o postEndpoints(call, sourceFile, bodies)
    \o handleEndpoints(call, "HandleFunc", sourceFile, bodies)
    \o handleEndpoints(call, "Handle", sourceFile, bodies)

\* The call expressions of a file in the order ast.Inspect reaches them: a
\* call, then the call its selector is applied to.
RECURSIVE inspectChain(_)
inspectChain(call) ==
    IF call.x = <<>> THEN <<call>> ELSE <<call>> \o inspectChain(call.x[1])

RECURSIVE inspectFile(_)
inspectFile(calls) ==
    IF calls = <<>> THEN <<>> ELSE inspectChain(Head(calls)) \o inspectFile(Tail(calls))

\* The directory test of both WalkDir callbacks of ScanDir.
skipDir(name) ==
    \/ HasPrefix(name, ".")
    \/ name = "vendor"
    \/ name = "node_modules"
    \/ name = "bin"
    \/ name = "dist"

\* The files the two passes of ScanDir parse: the root is the first directory
\* the callback is asked about; a skipped directory hides everything below.
scanFiles ==
    IF skipDir(rootEntryName(opt.Dir)) THEN <<>>
    ELSE SelectSeq(tree, LAMBDA f :
             /\ \A i \in DOMAIN f.dirs : ~skipDir(f.dirs[i])
             /\ isGoSource(f.name))

\* A file of the tree: [name |-> its path, dirs |-> the directories between
\* the root and the file, pkg |-> its package clause,
\* broken |-> it does not parse, types |-> its struct type declarations,
\* funcs |-> its function declarations, groups |-> its comment groups,
\* calls |-> its selector call statements].
CurFile == scanFiles[fileIdx]
CurNode == inspectFile(CurFile.calls)[nodeIdx]

\* ScanDir up to the first pass: the project analysis; the package-level
\* variable is assigned only when the analysis succeeded.
AnalyzeStep ==
    /\ pc = "analyze"
    /\ LET projectAnalysis == AnalyzeProject(opt.Dir, tree)
       IN  globalProjectAnalysis' =
              IF projectAnalysis = Nil THEN globalProjectAnalysis ELSE projectAnalysis
    /\ pc' = "pass1"
    /\ fileIdx' = 1
    /\ UNCHANGED <<tree, nodeIdx, globalFunctionBodies, seen, endpoints, err, scanNo,
                   firstResult, opt, ret,
                   buildOpts, collection>>

\* First pass, one file: collect the bodies of its functions, or return the
\* parse error.
FirstPassFile ==
    /\ pc = "pass1"
    /\ fileIdx <= Len(scanFiles)
    /\ IF CurFile.broken
       THEN /\ pc' = "done"
            /\ err' = "parse " \o CurFile.name
            /\ endpoints' = <<>>
            /\ UNCHANGED <<fileIdx, globalFunctionBodies>>
       ELSE /\ \E fileFunctionBodies \in scanFunctionsForBodies(CurFile.funcs, globalProjectAnalysis) :
                 globalFunctionBodies' = MergeBodies(globalFunctionBodies, fileFunctionBodies)
            /\ fileIdx' = fileIdx + 1
            /\ UNCHANGED <<pc, err, endpoints>>
    /\ UNCHANGED <<tree, globalProjectAnalysis, nodeIdx, seen, scanNo, firstResult, opt, ret,
                   buildOpts, collection>>

\* The first walk returned nil: the second pass starts.
EndFirstPass ==
    /\ pc = "pass1"
    /\ fileIdx > Len(scanFiles)
    /\ pc' = "annotations"
    /\ fileIdx' = 1
    /\ UNCHANGED <<tree, globalProjectAnalysis, nodeIdx, globalFunctionBodies, seen,
                   endpoints, err, scanNo, firstResult, opt, ret,
                   buildOpts, collection>>

\* Second pass, one file: its annotations are added first.
ScanAnnotations ==
    /\ pc = "annotations"
    /\ fileIdx <= Len(scanFiles)
    /\ LET acc == addAll([seen |-> seen, endpoints |-> endpoints],
                         scanAnnotationsFromFile(CurFile.groups, CurFile.name))
       IN  /\ seen' = acc.seen
           /\ endpoints' = acc.endpoints
    /\ pc' = "calls"
    /\ nodeIdx' = 1
    /\ UNCHANGED <<tree, globalProjectAnalysis, fileIdx, globalFunctionBodies, err,
                   scanNo, firstResult, opt, ret,
                   buildOpts, collection>>

\* Second pass: the callback of ast.Inspect on one call expression.
VisitCall ==
    /\ pc = "calls"
    /\ nodeIdx <= Len(inspectFile(CurFile.calls))
    /\ LET acc == addAll([seen |-> seen, endpoints |-> endpoints],
                         callEndpoints(CurNode, CurFile.name, globalFunctionBodies))
       IN  /\ seen' = acc.seen
           /\ endpoints' = acc.endpoints
    /\ nodeIdx' = nodeIdx + 1
    /\ UNCHANGED <<tree, globalProjectAnalysis, pc, fileIdx, globalFunctionBodies, err,
                   scanNo, firstResult, opt, ret,
                   buildOpts, collection>>

\* Second pass: ast.Inspect is through with the file.
EndFile ==
    /\ pc = "calls"
    /\ nodeIdx > Len(inspectFile(CurFile.calls))
    /\ pc' = "annotations"
    /\ fileIdx' = fileIdx + 1
    /\ UNCHANGED <<tree, globalProjectAnalysis, nodeIdx, globalFunctionBodies, seen,
                   endpoints, err, scanNo, firstResult, opt, ret,
                   buildOpts, collection>>

\* return endpoints, err
Return ==
    /\ pc = "annotations"
    /\ fileIdx > Len(scanFiles)
    /\ pc' = "done"
    /\ UNCHANGED <<tree, globalProjectAnalysis, fileIdx, nodeIdx, globalFunctionBodies,
                   seen, endpoints, err, scanNo, firstResult, opt, ret,
                   buildOpts, collection>>

\* A wrapper that hands the error of ScanDir on.
nilOrKeeps(e) == e

\* nilOr: any error becomes nil.
nilOr(e) == IF e # "" THEN "" ELSE e

\* ScanDirWithOpts: both branches return what ScanDir(opt.Dir) returned,
\* the error through nilOr.
ScanDirWithOpts ==
    /\ pc = "done"
    /\ ret = Nil
    /\ ret' = [eps |-> endpoints, err |-> nilOr(err)]
    /\ UNCHANGED <<opt, tree, globalProjectAnalysis, pc, fileIdx, nodeIdx,
                   globalFunctionBodies, seen, endpoints, err, scanNo, firstResult,
                   buildOpts, collection>>

Next ==
    \/ AnalyzeStep
    \/ FirstPassFile
    \/ EndFirstPass
    \/ ScanAnnotations
    \/ VisitCall
    \/ EndFile
    \/ Return
    \/ ScanDirWithOpts

\* ScanDir is called once more on the same tree by the same process: its
\* locals are fresh, the package-level analysis is what the last call left.
MaxScans == 2

ScanAgain ==
    /\ pc = "done"
    /\ scanNo < MaxScans
    /\ firstResult' = IF scanNo = 1 THEN [endpoints |-> endpoints, err |-> err]
                      ELSE firstResult
    /\ scanNo' = scanNo + 1
    /\ pc' = "analyze"
    /\ fileIdx' = 1
    /\ nodeIdx' = 1
    /\ globalFunctionBodies' = EmptyMap
    /\ seen' = {}
    /\ endpoints' = <<>>
    /\ err' = ""
    /\ ret' = Nil
    /\ UNCHANGED <<opt, tree, globalProjectAnalysis, buildOpts, collection>>

NextRepeat ==
    \/ Next
    \/ ScanAgain

-----------------------------------------------------------------------------
(* Package postman: the collection built from an endpoint list.            *)

\* The bytes of paths, methods, file names and tags in byte order: Go
\* compares strings bytewise.
AsciiOrder ==
    " -./0123456789:ABCDEFGHIJKLMNOPQRSTUVWXYZ_abcdefghijklmnopqrstuvwxyz{}"

ByteRank(c) == IF CharIn(c, AsciiOrder) THEN Index(AsciiOrder, c) ELSE 0

\* a < b on Go strings
RECURSIVE StrLess(_, _)
StrLess(a, b) ==
    IF b = "" THEN FALSE
    ELSE IF a = "" THEN TRUE
    ELSE IF Head(a) = Head(b) THEN StrLess(Tail(a), Tail(b))
    ELSE ByteRank(Head(a)) < ByteRank(Head(b))

cleanPath(p) == IF p = "" THEN "/" ELSE IF ~HasPrefix(p, "/") THEN "/" \o p ELSE p

splitPath(p) ==
    LET q == TrimPrefix(p, "/")
    IN  IF q = "" THEN <<"">> ELSE SelectSeq(Split(q, "/"), LAMBDA x : x # "")

take(parts, n) ==
    IF n <= 0 \/ Len(parts) = 0 THEN <<>>
    ELSE SubSeq(parts, 1, IF n > Len(parts) THEN Len(parts) ELSE n)

pathToURL(path) ==
    [Raw  |-> "{{baseUrl}}" \o cleanPath(path),
     Host |-> <<"{{baseUrl}}">>,
     Path |-> splitPath(path)]

\* json.Marshal of a string: quote and backslash are escaped
RECURSIVE jsonString(_)
jsonString(s) ==
    IF s = "" THEN ""
    ELSE (IF Head(s) = "\"" THEN "\\\"" ELSE IF Head(s) = "\\" THEN "\\\\" ELSE Head(s))
         \o jsonString(Tail(s))

\* json.Marshal of the graphqlBody map: the keys in sorted order
marshalGraphQL(query, variables) ==
    "{\"query\":\"" \o jsonString(query) \o "\""
    \o (IF variables = "" THEN "" ELSE ",\"variables\":\"" \o jsonString(variables) \o "\"")
    \o "}"

rawBody(text) ==
    [Mode |-> "raw", Raw |-> text, Options |-> [raw |-> [language |-> "json"]]]

\* The query of a GraphQL request: the endpoint's, or the default text of its
\* operation.
graphqlQuery(e) ==
    IF e.GraphQL # Nil /\ e.GraphQL.Query # "" THEN e.GraphQL.Query
    ELSE IF e.GraphQL # Nil /\ e.GraphQL.Operation = "mutation"
    THEN "mutation { # Add your mutation here }"
    ELSE IF e.GraphQL # Nil /\ e.GraphQL.Operation = "subscription"
    THEN "subscription { # Add your subscription here }"
    ELSE "query { # Add your query here }"

requestDescription(e) ==
    IF e.Desc # "" THEN e.Desc
    ELSE "Source: " \o e.SourceFile
         \o (IF e.Handler # "" THEN " | Handler: " \o e.Handler ELSE "")
         \o (IF e.Type # "" THEN " | Type: " \o e.Type ELSE "")
         \o (IF e.Type = "GraphQL" /\ e.GraphQL # Nil /\ e.GraphQL.Operation # ""
             THEN " | Operation: " \o e.GraphQL.Operation ELSE "")

\* A request that never adds a Content-Type header.
endpointToRequestBare(e) ==
    [Method      |-> e.Method,
     Header      |-> {[Key |-> k, Value |-> e.Headers[k]] : k \in DOMAIN e.Headers},
     Body        |-> IF e.BodyRaw # "" THEN rawBody(e.BodyRaw) ELSE Nil,
     URL         |-> pathToURL(e.Path),
     Description |-> requestDescription(e)]

\* endpointToRequest.  The headers are appended in map order; they are kept
\* as the set of their key/value pairs.
endpointToRequest(e) ==
    LET headers        == {[Key |-> k, Value |-> e.Headers[k]] : k \in DOMAIN e.Headers}
        hasContentType == \E h \in headers : ToLower(h.Key) = "content-type"
        added          == IF hasContentType THEN {}
                          ELSE {[Key |-> "Content-Type", Value |-> "application/json"]}
    IN  [Method      |-> e.Method,
         Header      |-> IF e.Type = "GraphQL" \/ e.BodyRaw # ""
                         THEN headers \cup added ELSE headers,
         Body        |-> IF e.Type = "GraphQL"
                         THEN rawBody(marshalGraphQL(graphqlQuery(e),
                                  IF e.GraphQL # Nil THEN e.GraphQL.Variables ELSE ""))
                         ELSE IF e.BodyRaw # "" THEN rawBody(e.BodyRaw)
                         ELSE Nil,
         URL         |-> pathToURL(e.Path),
         Description |-> requestDescription(e)]

buildLeafItem(e) ==
    [Name    |-> TrimSpace(ToUpper(e.Method) \o " " \o e.Path),
     Request |-> endpointToRequest(e),
     Item    |-> <<>>]

\* An item without a request is a folder.
IsFolder(item) == item.Request = Nil

Folder(name, items) == [Name |-> name, Request |-> Nil, Item |-> items]

\* The first folder of the list with the name, 0 when there is none.
folderIndex(items, name) ==
    LET found == {i \in DOMAIN items : IsFolder(items[i]) /\ items[i].Name = name}
    IN  IF found = {} THEN 0 ELSE CHOOSE i \in found : \A j \in found : i <= j

\* A method folder joins the folder of its name, or is appended.
mergeMethodFolder(items, child) ==
    LET at == folderIndex(items, child.Name)
    IN  IF at = 0 THEN Append(items, child)
        ELSE [items EXCEPT ![at].Item = @ \o child.Item]

insertMethodFolder(root, method, leaf) ==
    mergeMethodFolder(root, Folder(ToUpper(method), <<leaf>>))

\* Every child is appended to the root, whatever the group.
insertFlat(root, group, child, childIsMethodFolder) == Append(root, child)

RECURSIVE insertIntoFolders(_, _, _, _)
insertIntoFolders(root, group, child, childIsMethodFolder) ==
    IF Len(group) = 0 \/ (Len(group) = 1 /\ group[1] = "")
    THEN IF childIsMethodFolder THEN mergeMethodFolder(root, child) ELSE Append(root, child)
    ELSE LET head   == group[1]
             found  == folderIndex(root, head)
             root2  == IF found = 0 THEN Append(root, Folder(head, <<>>)) ELSE root
             at     == IF found = 0 THEN Len(root2) ELSE found
             folder == root2[at]
             items  == IF Len(group) = 1
                       THEN IF childIsMethodFolder THEN mergeMethodFolder(folder.Item, child)
                            ELSE Append(folder.Item, child)
                       ELSE insertIntoFolders(folder.Item, Tail(group), child,
                                              childIsMethodFolder)
         IN  [root2 EXCEPT ![at].Item = items]

\* The less function of BuildCollection's sort
endpointLess(a, b) ==
    IF a.Path = b.Path
    THEN IF a.Method = b.Method THEN StrLess(a.SourceFile, b.SourceFile)
         ELSE StrLess(a.Method, b.Method)
    ELSE StrLess(a.Path, b.Path)

\* sort.SliceStable: an element goes behind those that are not greater.
RECURSIVE insertSorted(_, _)
insertSorted(sorted, e) ==
    IF sorted = <<>> THEN <<e>>
    ELSE IF endpointLess(e, Head(sorted)) THEN <<e>> \o sorted
    ELSE <<Head(sorted)>> \o insertSorted(Tail(sorted), e)

RECURSIVE sortEndpoints(_, _)
sortEndpoints(sorted, eps) ==
    IF eps = <<>> THEN sorted ELSE sortEndpoints(insertSorted(sorted, Head(eps)), Tail(eps))

\* The loop of BuildCollection over the sorted endpoints
RECURSIVE buildMainTree(_, _, _)
buildMainTree(mainTree, opts, eps) ==
    IF eps = <<>> THEN mainTree
    ELSE LET e    == Head(eps)
             leaf == buildLeafItem(e)
             next == IF opts.GroupDepth = 0
                     THEN IF opts.GroupByMethod THEN insertMethodFolder(mainTree, e.Method, leaf)
                          ELSE Append(mainTree, leaf)
                     ELSE LET group == take(splitPath(e.Path), opts.GroupDepth)
                          IN  IF opts.GroupByMethod
                              THEN insertIntoFolders(mainTree, group,
                                       Folder(ToUpper(e.Method), <<leaf>>), TRUE)
                              ELSE insertIntoFolders(mainTree, group, leaf, FALSE)
         IN  buildMainTree(next, opts, Tail(eps))

\* The leaves buildTagTree puts into the bucket of a tag, in endpoint order
RECURSIVE bucket(_, _)
bucket(tag, eps) ==
    IF eps = <<>> THEN <<>>
    ELSE LET e    == Head(eps)
             hits == SelectSeq(e.Tags, LAMBDA t : TrimSpace(t) = tag)
         IN  [i \in DOMAIN hits |-> buildLeafItem(e)] \o bucket(tag, Tail(eps))

\* sort.Strings
RECURSIVE sortStrings(_)
sortStrings(S) ==
    IF S = {} THEN <<>>
    ELSE LET least == CHOOSE x \in S : \A y \in S \ {x} : StrLess(x, y)
         IN  <<least>> \o sortStrings(S \ {least})

buildTagTree(eps) ==
    LET names == UNION {{TrimSpace(eps[i].Tags[k]) : k \in DOMAIN eps[i].Tags} :
                           i \in DOMAIN eps}
        tags  == sortStrings(names \ {""})
    IN  [i \in DOMAIN tags |-> Folder(tags[i], bucket(tags[i], eps))]

\* BuildCollection without Info.PostmanID, which is random
BuildCollection(opts, eps) ==
    LET depth    == IF opts.GroupDepth < 0 THEN 0 ELSE opts.GroupDepth
        sorted   == sortEndpoints(<<>>, eps)
        mainTree == buildMainTree(<<>>, [opts EXCEPT !.GroupDepth = depth], sorted)
        byTag    == IF opts.TagFolders THEN buildTagTree(sorted) ELSE <<>>
    IN  [Info     |-> [Name |-> opts.Name],
         Item     |-> IF Len(byTag) > 0 THEN Append(mainTree, Folder("By Tag", byTag))
                      ELSE mainTree,
         Variable |-> <<[Key |-> "baseUrl", Value |-> opts.BaseURL, Type |-> "string"]>>]

\* The flags of main.go: -name, -base-url, -group-depth, -group-by-method,
\* -tag-folders
DefaultBuildOpts ==
    [Name |-> "Go API", BaseURL |-> "http://localhost:8080", GroupDepth |-> 1,
     GroupByMethod |-> FALSE, TagFolders |-> FALSE]

\* main: after a scan without error the endpoints are handed to
\* BuildCollection, which sorts the slice in place.
Build ==
    /\ pc = "done"
    /\ err = ""
    /\ collection = Nil
    /\ collection' = BuildCollection(buildOpts, endpoints)
    /\ endpoints' = sortEndpoints(<<>>, endpoints)
    /\ pc' = "built"
    /\ UNCHANGED <<opt, tree, globalProjectAnalysis, fileIdx, nodeIdx, globalFunctionBodies,
                   seen, err, scanNo, firstResult, ret, buildOpts>>

NextBuild ==
    \/ Next
    \/ Build

-----------------------------------------------------------------------------
(* Inputs: the syntax the scanned files are made of.                       *)

Str(v)   == [kind |-> "str", val |-> v]
Ident(v) == [kind |-> "ident", val |-> v]
SelArg(v) == [kind |-> "sel", val |-> v]
Addr(v)  == [kind |-> "addr", val |-> v]
Other    == [kind |-> "other", val |-> ""]

\* recv.sel(args) and inner.sel(args)
Call(recv, sel, args)   == [sel |-> sel, xname |-> recv, x |-> <<>>, args |-> args]
Chain(inner, sel, args) == [sel |-> sel, xname |-> "", x |-> <<inner>>, args |-> args]

Line(kind, a, b, c) == [kind |-> kind, a |-> a, b |-> b, c |-> c]

Field(name, type, tag) == [Names |-> <<name>>, Type |-> type, Tag |-> tag]

CallStmt(c) == [kind |-> "call", call |-> c]

\* var v struct{...} and v := struct{...}{}
VarStmt(fields) == [kind |-> "var", fields |-> fields]
LitStmt(fields) == [kind |-> "lit", fields |-> fields]

Func(name, stmts) == [name |-> name, hasBody |-> TRUE, stmts |-> stmts]

\* An item of a file: a struct type, a function, a comment group or a call.
TypeItem(t)  == [item |-> "type", v |-> t]
FuncItem(f)  == [item |-> "func", v |-> f]
GroupItem(g) == [item |-> "group", v |-> [lines |-> g]]
CallItem(c)  == [item |-> "call", v |-> c]

\* The items of kind k placed in file f, in the order they were placed.
RECURSIVE itemsOf(_, _, _)
itemsOf(placed, f, k) ==
    IF placed = <<>> THEN <<>>
    ELSE (IF Head(placed)[1] = f /\ Head(placed)[2].item = k
          THEN <<Head(placed)[2].v>> ELSE <<>>)
         \o itemsOf(Tail(placed), f, k)

\* The tree whose files, in walk order, are names and hold the placed items.
BuildTree(names, placed) ==
    [i \in 1..Len(names) |->
        [name   |-> names[i],
         dirs   |-> <<>>,
         pkg    |-> "main",
         imports |-> <<>>,
         broken |-> FALSE,
         types  |-> itemsOf(placed, names[i], "type"),
         funcs  |-> itemsOf(placed, names[i], "func"),
         groups |-> itemsOf(placed, names[i], "group"),
         calls  |-> itemsOf(placed, names[i], "call")]]

SeqsUpTo(S, n) == UNION {[1..k -> S] : k \in 0..n}

\* ScanDir is entered: nothing was scanned in this process before.
Main(o, b, t) ==
    /\ opt = o
    /\ buildOpts = b
    /\ tree = t
    /\ globalProjectAnalysis = Nil
    /\ pc = "analyze"
    /\ fileIdx = 1
    /\ nodeIdx = 1
    /\ globalFunctionBodies = EmptyMap
    /\ seen = {}
    /\ endpoints = <<>>
    /\ err = ""
    /\ scanNo = 1
    /\ firstResult = Nil
    /\ ret = Nil
    /\ collection = Nil

\* The grouping flags are left at their defaults.
Enter(o, t) == Main(o, DefaultBuildOpts, t)

\* The default invocation: the tree is scanned from its root "api".
Start(t) == Enter([Dir |-> "api", UseTypes |-> FALSE, BuildTags |-> ""], t)

-----------------------------------------------------------------------------
(* Spec: trees of two files that mix annotations, route calls and handlers. *)

MaxItems == 2

FileNames == <<"api/a.go", "api/b.go">>

createUser ==
    Func("createUser", <<CallStmt(Call("c", "ShouldBindJSON", <<Addr("userRequest")>>))>>)

listUsers == Func("listUsers", <<CallStmt(Call("c", "JSON", <<Other, Other>>))>>)

usersChain ==
    Chain(Call("r", "HandleFunc", <<Str("/users"), Ident("createUser")>>),
          "Methods", <<Str("GET"), Str("post")>>)

ItemPool ==
    { FuncItem(createUser),
      FuncItem(listUsers),
      CallItem(Call("r", "Get", <<Str("/users"), Ident("listUsers")>>)),
      CallItem(Call("r", "POST", <<Str("/users"), SelArg("createUser")>>)),
      CallItem(Call("r", "Post", <<Str("/users"), Ident("createUser")>>)),
      CallItem(Call("r", "POST", <<Str("/api/GraphQL"), Ident("gql")>>)),
      CallItem(Call("http", "HandleFunc", <<Str("/users"), Ident("createUser")>>)),
      CallItem(Call("mux", "Handle", <<Str("/users"), Other>>)),
      CallItem(usersChain),
      CallItem(Chain(Call("r", "Methods", <<Str("PUT")>>),
                     "HandleFunc", <<Str("/users"), Ident("createUser")>>)),
      CallItem(Call("r", "Delete", <<Str("/X-Request-ID"), Ident("listUsers")>>)),
      CallItem(Call("r", "Get", <<Ident("usersPath"), Ident("listUsers")>>)),
      CallItem(Call("r", "Use", <<Ident("logger")>>)),
      GroupItem(<<Line("route", "get", "users", " List users ")>>),
      GroupItem(<<Line("tag", "users", "", ""),
                  Line("route", "POST", "/users", "Create user"),
                  Line("header", "Content-Type", "application/json", ""),
                  Line("body", "{\"a\":1}", "", "")>>),
      GroupItem(<<Line("rest", "FETCH", "/users", ""), Line("text", "", "", "")>>),
      GroupItem(<<Line("graphql", "Mutation", "/api/GraphQL", "Add user"),
                  Line("query", "mutation { addUser }", "", "")>>) }

Placements == {<<FileNames[i], it>> : i \in DOMAIN FileNames, it \in ItemPool}

Init == \E placed \in SeqsUpTo(Placements, MaxItems) : Start(BuildTree(FileNames, placed))

Spec == Init /\ [][Next]_vars

-----------------------------------------------------------------------------
(* SpecRepeat: one file with struct types and a decoding handler, scanned   *)
(* twice.                                                                   *)

MaxRepeatItems == 3

RepeatFile == <<"api/users.go">>

decodeUser ==
    Func("decodeUser", <<CallStmt(Chain(Call("json", "NewDecoder", <<Other>>),
                                        "Decode", <<Addr("user")>>))>>)

RepeatPool ==
    { TypeItem([Name |-> "UserRequest",
                Fields |-> <<Field("Name", "string", <<"json:\"name\"">>)>>]),
      TypeItem([Name |-> "UserResponse",
                Fields |-> <<Field("ID", "int", <<"json:\"id\"">>)>>]),
      TypeItem([Name |-> "Order", Fields |-> <<Field("Total", "float64", <<>>)>>]),
      FuncItem(listUsers),
      GroupItem(<<Line("route", "GET", "/users", "List users")>>),
      CallItem(Call("r", "Get", <<Str("/users"), Ident("listUsers")>>)) }

\* The handler and its route are in every tree.
RepeatBase ==
    << <<RepeatFile[1], FuncItem(decodeUser)>>,
       <<RepeatFile[1], CallItem(Call("r", "Post", <<Str("/users"), Ident("decodeUser")>>))>> >>

InitRepeat ==
    \E placed \in SeqsUpTo({<<RepeatFile[1], it>> : it \in RepeatPool}, MaxRepeatItems) :
        Start(BuildTree(RepeatFile, RepeatBase \o placed))

SpecRepeat == InitRepeat /\ [][NextRepeat]_vars

-----------------------------------------------------------------------------
(* SpecPath: one route call whose path literal ranges over short texts and  *)
(* over the header names in several letter cases.                           *)

MaxPathLen == 4

PathAlphabet == {"/", "-", "a", "A", "1"}

RECURSIVE Concat(_)
Concat(cs) == IF cs = <<>> THEN "" ELSE Head(cs) \o Concat(Tail(cs))

HeaderLikePaths ==
    {"/X-Request-ID", "/x-request-id", "/Content-Type", "/content-type", "/Authorization",
     "/AUTHORIZATION", "/Accept", "/accept", "/User-Agent", "/user-agent", "/accepted",
     "X-Request-ID", "/v1/X-Request-ID"}

PathInputs == {Concat(cs) : cs \in SeqsUpTo(PathAlphabet, MaxPathLen)} \cup HeaderLikePaths

PathFile == <<"api/routes.go">>

PathCalls(p) ==
    { Call("r", "Get", <<Str(p), Ident("h")>>),
      Call("r", "POST", <<Str(p), Ident("h")>>),
      Call("http", "HandleFunc", <<Str(p), Ident("h")>>),
      Call("mux", "Handle", <<Str(p), Ident("h")>>),
      Chain(Call("r", "HandleFunc", <<Str(p), Ident("h")>>), "Methods", <<Str("PUT")>>) }

InitPath ==
    \E p \in PathInputs : \E c \in PathCalls(p) :
        Start(BuildTree(PathFile, << <<PathFile[1], CallItem(c)>> >>))

SpecPath == InitPath /\ [][Next]_vars

-----------------------------------------------------------------------------
(* SpecAnn: one file with three comment groups; the middle one ranges over  *)
(* short sequences of directives and over the orders of a four-line block.  *)

MaxLines == 3

AnnFile == <<"api/ann.go">>

DirectivePool ==
    { Line("header", "Content-Type", "application/json", ""),
      Line("header", "Content-Type ", "text/plain", ""),
      Line("header", "X-Id", "abc", ""),
      Line("body", "{\"a\":1}", "", ""),
      Line("body", "{\"b\":2}", "", ""),
      Line("tag", "users", "", ""),
      Line("tag", "v1", "", ""),
      Line("route", "POST", "/api/users", "Create user"),
      Line("rest", "get", "/api/users", ""),
      Line("graphql", "Query", "/graphql", ""),
      Line("text", "", "", "") }

ExampleBlock ==
    << Line("route", "POST", "/api/users", "Create user"),
       Line("header", "Content-Type", "application/json", ""),
       Line("body", "{\"a\":1}", "", ""),
       Line("tag", "users", "", "") >>

\* The block with its lines in every order.
BlockOrders ==
    {[i \in 1..4 |-> ExampleBlock[f[i]]] : f \in {g \in [1..4 -> 1..4] : \A i, j \in 1..4 : g[i] = g[j] => i = j}}

GroupBefore ==
    << Line("header", "X-Before", "1", ""),
       Line("body", "before", "", ""),
       Line("tag", "before", "", ""),
       Line("route", "GET", "/before", "") >>

GroupAfter ==
    << Line("route", "GET", "/after", ""),
       Line("tag", "after", "", ""),
       Line("header", "X-After", "2", ""),
       Line("body", "after", "", "") >>

InitAnn ==
    \E g \in SeqsUpTo(DirectivePool, MaxLines) \cup BlockOrders :
        Start(BuildTree(AnnFile,
            << <<AnnFile[1], GroupItem(GroupBefore)>>,
               <<AnnFile[1], GroupItem(g)>>,
               <<AnnFile[1], GroupItem(GroupAfter)>>,
               <<AnnFile[1], CallItem(Call("r", "Get", <<Str("/health"), Ident("health")>>))>> >>))

SpecAnn == InitAnn /\ [][Next]_vars

-----------------------------------------------------------------------------
(* SpecName: a handler that binds the body to a variable whose name is made *)
(* of a few words, in a tree without struct types.                          *)

MaxFrags == 2

NameFile == <<"api/items.go">>

Fragments ==
    {"user", "User", "create", "Post", "Update", "put", "patch", "delete", "DELETE",
     "Request", "req", "data", "item"}

Identifiers == {Concat(fs) : fs \in SeqsUpTo(Fragments, MaxFrags) \ {<<>>}}

InitName ==
    \E id \in Identifiers :
        Start(BuildTree(NameFile,
            << <<NameFile[1],
                 FuncItem(Func("handler",
                     <<CallStmt(Call("c", "ShouldBindJSON", <<Addr(id)>>))>>))>>,
               <<NameFile[1],
                 CallItem(Call("r", "POST", <<Str("/items"), Ident("handler")>>))>> >>))

SpecName == InitName /\ [][Next]_vars

-----------------------------------------------------------------------------
(* SpecBody: one handler whose body is a short sequence of inline struct    *)
(* declarations and calls, in a tree with at most one project struct.       *)

MaxStmts == 3

BodyFile == <<"api/items.go">>

NameAge ==
    <<Field("Name", "string", <<"json:\"name\"">>), Field("Age", "int", <<"json:\"age\"">>)>>

Loose ==
    <<[Names |-> <<"First", "Last">>, Type |-> "string", Tag |-> <<>>],
      Field("Note", "[]string", <<"db:\"note\" json:\"note,omitempty\"">>),
      Field("Secret", "int8", <<"json:\"-\"">>)>>

StmtPool ==
    { VarStmt(NameAge),
      LitStmt(Loose),
      VarStmt(<<>>),
      CallStmt(Call("c", "ShouldBindJSON", <<Addr("req")>>)),
      CallStmt(Chain(Call("json", "NewDecoder", <<SelArg("Body")>>), "Decode", <<Addr("item")>>)),
      CallStmt(Call("json", "Unmarshal", <<Ident("body"), Addr("user")>>)),
      CallStmt(Call("io", "ReadAll", <<SelArg("Body")>>)),
      CallStmt(Call("c", "JSON", <<Other, Other>>)) }

ProjectTypes ==
    { <<>>,
      <<[Name |-> "Item", Fields |-> <<Field("ID", "int", <<"json:\"id\"">>),
                                      Field("Secret", "string", <<"json:\"-\"">>)>>]>>,
      <<[Name |-> "CreateItemRequest",
         Fields |-> <<[Names |-> <<"Width", "Height">>, Type |-> "float64", Tag |-> <<>>]>>]>> }

\* The handler, declared with the statements or without a body.
BodyHandlers ==
    {Func("handler", stmts) : stmts \in SeqsUpTo(StmtPool, MaxStmts)}
    \cup {[name |-> "handler", hasBody |-> FALSE, stmts |-> <<>>]}

InitBody ==
    \E fn \in BodyHandlers : \E types \in ProjectTypes :
        Start(<<[name   |-> BodyFile[1],
                 dirs   |-> <<>>,
                 pkg    |-> "main",
                 imports |-> <<>>,
                 broken |-> FALSE,
                 types  |-> types,
                 funcs  |-> <<fn>>,
                 groups |-> <<>>,
                 calls  |-> <<Call("r", "Post", <<Str("/items"), Ident("handler")>>)>>]>>)

SpecBody == InitBody /\ [][Next]_vars

-----------------------------------------------------------------------------
(* SpecType: a handler that decodes into an inline struct with one field,   *)
(* whose type ranges over the predeclared names, maps, other names and      *)
(* slices of them.                                                          *)

MaxSliceDepth == 2

TypeFile == <<"api/types.go">>

BaseTypes ==
    {"string", "int", "int8", "int16", "int32", "int64", "uint", "uint8", "uint16", "uint32",
     "uint64", "float32", "float64", "bool", "map[string]int", "map[string][]int",
     "interface{}", "any", "time.Time", "*int", "Money"}

RECURSIVE SliceOf(_, _)
SliceOf(t, n) == IF n = 0 THEN t ELSE "[]" \o SliceOf(t, n - 1)

TypeNames == {SliceOf(t, n) : t \in BaseTypes, n \in 0..MaxSliceDepth}

InitType ==
    \E t \in TypeNames :
        Start(BuildTree(TypeFile,
            << <<TypeFile[1],
                 FuncItem(Func("handler",
                     <<VarStmt(<<Field("V", t, <<>>)>>),
                       CallStmt(Call("c", "BindJSON", <<Addr("v")>>))>>))>>,
               <<TypeFile[1],
                 CallItem(Call("r", "Put", <<Str("/values"), Ident("handler")>>))>> >>))

SpecType == InitType /\ [][Next]_vars

-----------------------------------------------------------------------------
(* SpecWalk: a root directory given as ".", by name or by a relative path,  *)
(* holding source files of its own and in sub-directories, one of which     *)
(* may not parse; every ScanOptions value.                                  *)

Roots == {".", "proj", "../svc"}

BuildTagValues == {"", "integration"}

ScanOptions == [Dir : Roots, UseTypes : BOOLEAN, BuildTags : BuildTagValues]

\* The entries below the root in lexical order: the path from the root, the
\* directories on it, whether the file parses, the route it registers.
ModuleLines == <<"// the service", "module example.com/svc", "", "go 1.22">>

WalkPool ==
    <<[rel |-> ".git/hook.go",   dirs |-> <<".git">>,   broken |-> FALSE, route |-> "/hook"],
      [rel |-> "api/broken.go",  dirs |-> <<"api">>,    broken |-> TRUE,  route |-> ""],
      [rel |-> "api/routes.go",  dirs |-> <<"api">>,    broken |-> FALSE, route |-> "/api"],
      [rel |-> "bin/tool.go",    dirs |-> <<"bin">>,    broken |-> TRUE,  route |-> ""],
      [rel |-> "build/gen.go",   dirs |-> <<"build">>,  broken |-> FALSE, route |-> "/gen"],
      [rel |-> "go.mod",         dirs |-> <<>>,         broken |-> FALSE, route |-> ""],
      [rel |-> "main.go",        dirs |-> <<>>,         broken |-> FALSE, route |-> "/main"],
      [rel |-> "main_test.go",   dirs |-> <<>>,         broken |-> FALSE, route |-> "/test"],
      [rel |-> "vendor/lib.go",  dirs |-> <<"vendor">>, broken |-> FALSE, route |-> "/vendored"]>>

WalkFile(dir, e) ==
    [name    |-> walkPath(dir, e.rel),
     dirs    |-> e.dirs,
     pkg     |-> "main",
     imports |-> <<>>,
     broken  |-> e.broken,
     lines   |-> IF e.rel = "go.mod" THEN ModuleLines ELSE <<>>,
     types   |-> <<>>,
     funcs   |-> <<>>,
     groups  |-> <<>>,
     calls   |-> IF e.route = "" THEN <<>>
                 ELSE <<Call("r", "Get", <<Str(e.route), Ident("handler")>>)>>]

RECURSIVE Present(_, _, _)
Present(dir, chosen, i) ==
    IF i > Len(WalkPool) THEN <<>>
    ELSE (IF i \in chosen THEN <<WalkFile(dir, WalkPool[i])>> ELSE <<>>)
         \o Present(dir, chosen, i + 1)

InitWalk ==
    \E o \in ScanOptions : \E chosen \in SUBSET DOMAIN WalkPool :
        Enter(o, Present(o.Dir, chosen, 1))

SpecWalk == InitWalk /\ [][Next]_vars

-----------------------------------------------------------------------------
(* SpecGroups: one file registering routes on sub-routers and groups, as    *)
(* gorilla/mux, chi, echo and fiber programs do.                            *)

MaxRoutes == 2

GroupsFile == "proj/main.go"

PrefixCalls ==
    {Chain(Call("r", "PathPrefix", <<Str("/api")>>), "Subrouter", <<>>),
     Call("c", "Route", <<Str("/v1"), Other>>),
     Call("e", "Group", <<Str("/v2")>>),
     Call("app", "Group", <<Str("/v3")>>)}

RouteCalls ==
    {Chain(Call("sub", "HandleFunc", <<Str("/users"), Ident("handler")>>),
           "Methods", <<Str("GET"), Str("POST")>>),
     Call("sr", "Get", <<Str("/books"), Ident("handler")>>),
     Call("g", "GET", <<Str("/status"), Other>>),
     Call("grp", "Post", <<Str("/login"), Other>>),
     Call("muxx", "HandleFunc", <<Str("/v1/ping"), Ident("handler")>>)}

InitGroups ==
    \E o \in [Dir : {"proj"}, UseTypes : BOOLEAN, BuildTags : {""}] :
    \E calls \in SeqsUpTo(PrefixCalls \cup RouteCalls, MaxRoutes) :
        Enter(o, <<[name   |-> GroupsFile,
                    dirs   |-> <<>>,
                    pkg    |-> "main",
                    imports |-> <<>>,
                    broken |-> FALSE,
                    types  |-> <<>>,
                    funcs  |-> <<Func("handler", <<>>)>>,
                    groups |-> <<>>,
                    calls  |-> calls]>>)

SpecGroups == InitGroups /\ [][Next]_vars

-----------------------------------------------------------------------------
(* SpecArch: projects of a few files whose package clauses and imports      *)
(* range over names with and without architecture keywords.                 *)

MaxPackages == 3

PackageNames == {"main", "domain", "models", "api", "config", "tools"}

ImportLists == {<<>>, <<"google.golang.org/grpc">>}

ArchFile(i, packageName, imports) ==
    [name    |-> "proj/f" \o ToString(i) \o ".go",
     dirs    |-> <<>>,
     pkg     |-> packageName,
     imports |-> imports,
     broken  |-> FALSE,
     types   |-> <<>>,
     funcs   |-> <<>>,
     groups  |-> <<>>,
     calls   |-> <<Call("r", "Get", <<Str("/f" \o ToString(i)), Ident("handler")>>)>>]

InitArch ==
    \E picks \in SeqsUpTo(PackageNames \X ImportLists, MaxPackages) :
        Enter([Dir |-> "proj", UseTypes |-> FALSE, BuildTags |-> ""],
              [i \in DOMAIN picks |-> ArchFile(i, picks[i][1], picks[i][2])])

SpecArch == InitArch /\ [][Next]_vars

-----------------------------------------------------------------------------
(* SpecBuild: main as a whole.  One file of annotated routes and one route  *)
(* call is scanned and the endpoints are built into a collection, under     *)
(* every combination of the grouping flags.                                 *)

MaxGroups == 2

MaxDepth == 2

BuildFile == <<"api/app.go">>

GroupPool ==
    { << Line("route", "GET", "/users", "List users") >>,
      << Line("route", "POST", "/users", ""),
         Line("body", "{\"name\":\"string\"}", "", ""),
         Line("tag", "users", "", "") >>,
      << Line("route", "PUT", "/users/1", ""),
         Line("header", "content-type", "application/xml", ""),
         Line("body", "<user/>", "", ""),
         Line("tag", "users", "", ""),
         Line("tag", "admin", "", "") >>,
      << Line("graphql", "Mutation", "/graphql", "") >>,
      << Line("graphql", "Query", "/api/v1/gql", "Profile"),
         Line("query", "{ me }", "", ""),
         Line("variables", "{\"id\":1}", "", ""),
         Line("body", "ignored", "", "") >>,
      << Line("route", "GET", "/", ""),
         Line("tag", "v1", "", "") >>,
      << Line("route", "DELETE", "/api/v1/items", ""),
         Line("header", "Authorization", "Bearer x", "") >> }

BuildOptions ==
    [Name : {"Go API"}, BaseURL : {"http://localhost:8080"},
     GroupDepth : -1..MaxDepth, GroupByMethod : BOOLEAN, TagFolders : BOOLEAN]

InitBuild ==
    \E o \in BuildOptions : \E gs \in SeqsUpTo(GroupPool, MaxGroups) :
        Main([Dir |-> "api", UseTypes |-> FALSE, BuildTags |-> ""], o,
             BuildTree(BuildFile,
               [i \in DOMAIN gs |-> <<BuildFile[1], GroupItem(gs[i])>>]
               \o << <<BuildFile[1], FuncItem(Func("createItem",
                         <<CallStmt(Call("c", "ShouldBindJSON", <<Addr("item")>>))>>))>>,
                     <<BuildFile[1],
                       CallItem(Call("r", "Post", <<Str("/api/v1/items"), Ident("createItem")>>))>> >>))

SpecBuild == InitBuild /\ [][NextBuild]_vars

-----------------------------------------------------------------------------
(* SpecStale: one process scans a project that declares request structs     *)
(* and then another tree, whose analysis may fail on a file below bin/      *)
(* that the passes of ScanDir never reach.                                  *)

SourceFile(name, dirs, broken, types, funcs, calls) ==
    [name    |-> name,
     dirs    |-> dirs,
     pkg     |-> "main",
     imports |-> <<>>,
     broken  |-> broken,
     types   |-> types,
     funcs   |-> funcs,
     groups  |-> <<>>,
     calls   |-> calls]

StructPool ==
    { <<>>,
      <<[Name |-> "UserRequest", Fields |-> <<Field("Email", "string", <<"json:\"email\"">>)>>]>>,
      <<[Name |-> "Order", Fields |-> <<Field("Total", "float64", <<>>)>>]>> }

HandlerPool == {createUser, decodeUser}

FirstTrees ==
    {<<SourceFile("proj/types.go", <<>>, FALSE, types, <<fn>>,
                  <<Call("r", "Post", <<Str("/first"), Ident(fn.name)>>)>>)>> :
        types \in StructPool, fn \in HandlerPool}

OtherTrees ==
    {(IF withTool THEN <<SourceFile("other/bin/tool.go", <<"bin">>, TRUE, <<>>, <<>>, <<>>)>>
      ELSE <<>>)
     \o <<SourceFile("other/handlers.go", <<>>, FALSE, types, <<fn>>,
                      <<Call("r", "Post", <<Str("/second"), Ident(fn.name)>>)>>)>> :
        withTool \in BOOLEAN, types \in StructPool, fn \in HandlerPool}

InitStale ==
    \E t \in FirstTrees : Enter([Dir |-> "proj", UseTypes |-> FALSE, BuildTags |-> ""], t)

\* The process calls ScanDir on another root: the locals are fresh, the
\* package-level analysis is what the last call left.
ScanAnother ==
    /\ pc = "done"
    /\ scanNo < MaxScans
    /\ tree' \in OtherTrees
    /\ opt' = [opt EXCEPT !.Dir = "other"]
    /\ firstResult' = IF scanNo = 1 THEN [endpoints |-> endpoints, err |-> err]
                      ELSE firstResult
    /\ scanNo' = scanNo + 1
    /\ pc' = "analyze"
    /\ fileIdx' = 1
    /\ nodeIdx' = 1
    /\ globalFunctionBodies' = EmptyMap
    /\ seen' = {}
    /\ endpoints' = <<>>
    /\ err' = ""
    /\ ret' = Nil
    /\ UNCHANGED <<globalProjectAnalysis, buildOpts, collection>>

NextStale ==
    \/ Next
    \/ ScanAnother

SpecStale == InitStale /\ [][NextStale]_vars

-----------------------------------------------------------------------------
(* SpecGraphQL: one comment group of a few directives, among them @graphql  *)
(* directives of the three operation kinds.                                 *)

MaxDirectives == 3

GraphQLFile == <<"api/schema.go">>

GraphQLPool ==
    { Line("graphql", "Query", "/gql/q", ""),
      Line("graphql", "Mutation", "/gql/m", "Change"),
      Line("graphql", "subscription", "/gql/s", ""),
      Line("query", "{ me }", "", ""),
      Line("route", "GET", "/users", "") }

InitGraphQL ==
    \E g \in SeqsUpTo(GraphQLPool, MaxDirectives) :
        Start(BuildTree(GraphQLFile,
            << <<GraphQLFile[1], GroupItem(g)>>,
               <<GraphQLFile[1], CallItem(Call("r", "Get", <<Str("/health"), Ident("health")>>))>> >>))

SpecGraphQL == InitGraphQL /\ [][Next]_vars

-----------------------------------------------------------------------------
(* SpecOverlap: one file with the call r.Post("/users", decodeUser), whose  *)
(* handler consumes a body, and a comment group that may annotate the same  *)
(* route, with or without tags.                                             *)

MaxOverlapLines == 3

OverlapFile == <<"api/users.go">>

OverlapPool ==
    { Line("route", "POST", "/users", "Create user"),
      Line("rest", "post", "/users", ""),
      Line("header", "X-Id", "abc", ""),
      Line("body", "{\"a\":1}", "", ""),
      Line("tag", "users", "", "") }

InitOverlap ==
    \E g \in SeqsUpTo(OverlapPool, MaxOverlapLines) :
        Start(BuildTree(OverlapFile,
            << <<OverlapFile[1], GroupItem(g)>>,
               <<OverlapFile[1], FuncItem(decodeUser)>>,
               <<OverlapFile[1],
                 CallItem(Call("r", "Post", <<Str("/users"), Ident("decodeUser")>>))>> >>))

SpecOverlap == InitOverlap /\ [][Next]_vars

-----------------------------------------------------------------------------
(* Properties of the endpoint list.                                        *)

Methods == {"GET", "POST", "PUT", "DELETE", "PATCH", "HEAD", "OPTIONS", "ANY"}

\* C1: every endpoint of the list ScanDir builds has a path that begins with
\* "/", an upper-case method among the seven verbs and ANY, and a type.
C1_EndpointsNormalized ==
    \A i \in DOMAIN endpoints :
        /\ Len(endpoints[i].Path) >= 1
        /\ SubSeq(endpoints[i].Path, 1, 1) = "/"
        /\ endpoints[i].Method \in Methods
        /\ endpoints[i].Type # ""

\* A scan that returned an annotation whose path had no leading slash and
\* whose method was written in lower case, beside an endpoint of a call.
C1_Witness ==
    /\ pc = "done"
    /\ \E i \in DOMAIN endpoints :
          /\ endpoints[i].Desc = "List users"
          /\ endpoints[i].Method = "GET"
          /\ endpoints[i].Path = "/users"
    /\ \E i \in DOMAIN endpoints : endpoints[i].Handler = "createUser"

\* The endpoints the step about to be taken hands to add, in order.
Discovered ==
    IF pc = "annotations" /\ fileIdx <= Len(scanFiles)
    THEN scanAnnotationsFromFile(CurFile.groups, CurFile.name)
    ELSE IF pc = "calls" /\ nodeIdx <= Len(inspectFile(CurFile.calls))
    THEN callEndpoints(CurNode, CurFile.name, globalFunctionBodies)
    ELSE <<>>

\* An endpoint as the list holds it.
Normal(e) ==
    [e EXCEPT !.Method = IF e.Method = "" THEN "ANY" ELSE ToUpper(e.Method),
              !.Path   = IF Len(e.Path) >= 1 /\ SubSeq(e.Path, 1, 1) = "/"
                         THEN e.Path ELSE "/" \o e.Path,
              !.Type   = IF e.Type = "" THEN "REST" ELSE e.Type]

Identity(e) == <<e.Method, e.Path, e.SourceFile, Join(e.Tags, ",")>>

\* kept, followed by the endpoints of es that repeat no identity before them
RECURSIVE KeepFirst(_, _)
KeepFirst(kept, es) ==
    IF es = <<>> THEN kept
    ELSE KeepFirst(IF \E i \in DOMAIN kept : Identity(kept[i]) = Identity(Normal(Head(es)))
                   THEN kept
                   ELSE Append(kept, Normal(Head(es))),
                   Tail(es))

\* C2: no two endpoints of the list share (method, path, source file, joined
\* tags); an endpoint that repeats the identity of an earlier one is dropped
\* and the earlier one stays as it is; the others are appended in the order
\* of their discovery.
C2_FirstSeenWins ==
    [][/\ endpoints' = KeepFirst(endpoints, Discovered)
       /\ \A i, j \in DOMAIN endpoints' :
             Identity(endpoints'[i]) = Identity(endpoints'[j]) => i = j]_vars

\* A scan in which the call r.Get("/users", listUsers) repeated the identity
\* of the annotation of its file and only the annotation was returned.
C2_Witness ==
    /\ pc = "done"
    /\ Len(endpoints) = 1
    /\ endpoints[1].Desc = "List users"
    /\ \E f \in DOMAIN tree :
          /\ tree[f].groups # <<>>
          /\ tree[f].calls = <<Call("r", "Get", <<Str("/users"), Ident("listUsers")>>)>>

\* C3: a second scan of the same unchanged tree returns the list the first
\* scan returned: same length, same order, every field equal, the
\* synthesized body text included, also when several project structs match
\* the variable a handler decodes into.
C3_SecondScanEqualsFirst ==
    (scanNo = 2 /\ pc = "done") =>
        [endpoints |-> endpoints, err |-> err] = firstResult

\* The endpoints of the list that come from the file called name.
FromFile(name) == SelectSeq(endpoints, LAMBDA e : e.SourceFile = name)

\* C4: a file whose only route is the chain
\* r.HandleFunc("/users", createUser).Methods("GET", "post") contributes
\* exactly two endpoints, GET and POST, with the path and the handler of the
\* chain, and no ANY endpoint.
C4_ChainOnePerVerb ==
    pc = "done" =>
        \A f \in DOMAIN tree :
            (tree[f].calls = <<usersChain>> /\ tree[f].groups = <<>>) =>
                /\ [i \in 1..Len(FromFile(tree[f].name)) |-> FromFile(tree[f].name)[i].Method]
                       = <<"GET", "POST">>
                /\ \A i \in 1..Len(FromFile(tree[f].name)) :
                       /\ FromFile(tree[f].name)[i].Path = "/users"
                       /\ FromFile(tree[f].name)[i].Handler = "createUser"

\* The bodies the detector can give the functions of the tree whose bare name
\* is h; the empty body when h is empty or names no function.
ExpectedBodies(h) ==
    LET declared == {fn \in UNION {{tree[f].funcs[k] : k \in DOMAIN tree[f].funcs} :
                                        f \in DOMAIN tree} : fn.name = h}
    IN  IF h = "" \/ declared = {} THEN {""}
        ELSE UNION {DetectBodyFromFunction(fn, globalProjectAnalysis) : fn \in declared}

\* The second pass is about to visit a call whose first argument is a valid
\* string-literal path.
AboutToVisitRoute ==
    /\ pc = "calls"
    /\ nodeIdx <= Len(inspectFile(CurFile.calls))
    /\ Len(CurNode.args) >= 1
    /\ CurNode.args[1].kind = "str"
    /\ isValidEndpointPath(CurNode.args[1].val)

\* The call about to be visited has a Methods call chained to it or is
\* itself chained to one.
MethodsChained ==
    \/ CurNode.x # <<>> /\ CurNode.x[1].sel = "Methods"
    \/ /\ nodeIdx > 1
       /\ inspectFile(CurFile.calls)[nodeIdx - 1].sel = "Methods"
       /\ inspectFile(CurFile.calls)[nodeIdx - 1].x = <<CurNode>>

\* C5: a HandleFunc or Handle call with a valid string-literal path and no
\* Methods call chained to it (before or after) contributes exactly one
\* endpoint: method ANY, that path, type REST, and the body detected for its
\* handler (empty when the handler consumes none).
C5_BareHandleIsAny ==
    [][(AboutToVisitRoute /\ CurNode.sel \in {"HandleFunc", "Handle"} /\ ~MethodsChained) =>
          \E body \in ExpectedBodies(guessHandlerName(CurNode)) :
              endpoints' = KeepFirst(endpoints,
                  <<callEndpoint("ANY", CurNode.args[1].val, CurFile.name,
                                 guessHandlerName(CurNode), body, "REST", Nil)>>)]_vars

\* http.HandleFunc("/users", createUser) was scanned and gave the ANY
\* endpoint with the body of createUser.
C5_Witness ==
    /\ pc = "done"
    /\ \E f \in DOMAIN tree :
          tree[f].calls = <<Call("http", "HandleFunc", <<Str("/users"), Ident("createUser")>>)>>
    /\ \E f \in DOMAIN tree : tree[f].funcs = <<createUser>>
    /\ Len(endpoints) = 1
    /\ endpoints[1].Method = "ANY"
    /\ endpoints[1].Path = "/users"
    /\ endpoints[1].Type = "REST"
    /\ endpoints[1].BodyRaw = UserShape

\* C6: a file that calls r.POST("/api/GraphQL", gql) has in the output a
\* POST endpoint of that path whose type is GraphQL and whose operation is
\* "query"; the endpoint of r.POST("/users", ...) has type REST.
C6_PostGraphQLPath ==
    pc = "done" =>
        \A f \in DOMAIN tree :
            /\ (\E k \in DOMAIN tree[f].calls :
                    tree[f].calls[k] = Call("r", "POST", <<Str("/api/GraphQL"), Ident("gql")>>))
               => \E i \in DOMAIN endpoints :
                     /\ endpoints[i].Method = "POST"
                     /\ endpoints[i].Path = "/api/GraphQL"
                     /\ endpoints[i].SourceFile = tree[f].name
                     /\ endpoints[i].Type = "GraphQL"
                     /\ endpoints[i].GraphQL # Nil
                     /\ endpoints[i].GraphQL.Operation = "query"
            /\ (\E k \in DOMAIN tree[f].calls :
                    tree[f].calls[k] = Call("r", "POST", <<Str("/users"), SelArg("createUser")>>))
               => \E i \in DOMAIN endpoints :
                     /\ endpoints[i].Method = "POST"
                     /\ endpoints[i].Path = "/users"
                     /\ endpoints[i].SourceFile = tree[f].name
                     /\ endpoints[i].Type = "REST"

Verbs == {"GET", "POST", "PUT", "DELETE", "PATCH", "HEAD", "OPTIONS"}

\* C7: a call whose selector is a verb in any letter case and whose first
\* argument is a valid string-literal path contributes exactly one endpoint,
\* with the verb in upper case and the body detected for the function that
\* has the handler's name, in whichever file of the tree it is declared; the
\* body is empty when there is no handler name or no body was detected.
C7_VerbCallBody ==
    [][(AboutToVisitRoute /\ ToUpper(CurNode.sel) \in Verbs) =>
          \E body \in ExpectedBodies(guessHandlerName(CurNode)) :
              endpoints' = KeepFirst(endpoints,
                  <<callEndpoint(ToUpper(CurNode.sel), CurNode.args[1].val, CurFile.name,
                                 guessHandlerName(CurNode), body, "REST", Nil)>>)]_vars

\* r.Post("/users", createUser) in the first file got the body of
\* createUser, which the second file declares.
C7_Witness ==
    /\ pc = "done"
    /\ tree[1].calls = <<Call("r", "Post", <<Str("/users"), Ident("createUser")>>)>>
    /\ tree[1].funcs = <<>>
    /\ tree[2].funcs = <<createUser>>
    /\ Len(endpoints) = 1
    /\ endpoints[1].Method = "POST"
    /\ endpoints[1].BodyRaw = UserShape

\* The path literal of the route call of the tree.
PathLiteral ==
    LET c == tree[1].calls[1]
    IN  IF c.x = <<>> THEN c.args[1].val ELSE c.x[1].args[1].val

BlacklistLower ==
    {"/x-request-id", "/content-type", "/authorization", "/accept", "/user-agent"}

IsLetterOrDigit(c) == \E i \in 1..Len(Lowers \o Uppers \o Digits \o "_") :
                          SubSeq(Lowers \o Uppers \o Digits \o "_", i, i) = c

IsLower(c) == \E i \in 1..Len(Lowers) : SubSeq(Lowers, i, i) = c

\* s equals its own title-cased form: no word of s starts with a lower-case
\* letter.
IsTitleCased(s) ==
    \A i \in 1..Len(s) :
        (i = 1 \/ ~IsLetterOrDigit(SubSeq(s, i - 1, i - 1))) => ~IsLower(SubSeq(s, i, i))

HasChar(s, c) == \E i \in 1..Len(s) : SubSeq(s, i, i) = c

\* The filter as the specification words it.
SpecAccepts(p) ==
    /\ p # ""
    /\ SubSeq(p, 1, 1) = "/"
    /\ Len(p) - 1 >= 2
    /\ ToLower(p) \notin BlacklistLower
    /\ ~(/\ ~HasChar(SubSeq(p, 2, Len(p)), "/")
         /\ HasChar(SubSeq(p, 2, Len(p)), "-")
         /\ IsTitleCased(SubSeq(p, 2, Len(p))))

\* C8: the path validity filter accepts a path literal iff it is non-empty,
\* starts with "/", has at least two characters after the slash, is none of
\* the five header names in any letter case, and is not a single segment
\* with a hyphen that equals its title-cased form; a route call produces an
\* endpoint iff its path literal is accepted.
C8_PathFilter ==
    /\ isValidEndpointPath(PathLiteral) <=> SpecAccepts(PathLiteral)
    /\ pc = "done" => (endpoints # <<>> <=> SpecAccepts(PathLiteral))

\* The route call with the path "/X-Request-ID" was scanned and gave nothing.
C8_Witness ==
    /\ pc = "done"
    /\ PathLiteral = "/X-Request-ID"
    /\ endpoints = <<>>

\* The lines of the middle comment group of the file.
MiddleGroup == tree[1].groups[2].lines

IsRouteLine(l) == l.kind \in {"route", "rest", "graphql"}

\* The header directives of group g: the keys, each with the value of the
\* last directive that names it.
GroupHeaders(g) ==
    LET named(k) == {i \in DOMAIN g : g[i].kind = "header" /\ TrimSpace(g[i].a) = k}
        last(k)  == CHOOSE i \in named(k) : \A j \in named(k) : j <= i
    IN  [k \in {TrimSpace(g[i].a) : i \in {j \in DOMAIN g : g[j].kind = "header"}} |->
            TrimSpace(g[last(k)].b)]

\* The text of the last body directive of group g.
GroupBody(g) ==
    LET bodies == {i \in DOMAIN g : g[i].kind = "body"}
    IN  IF bodies = {} THEN ""
        ELSE g[CHOOSE i \in bodies : \A j \in bodies : j <= i].a

\* The tag tokens of group g, each at its first occurrence.
GroupTags(g) ==
    LET firsts == {i \in DOMAIN g : /\ g[i].kind = "tag"
                                    /\ \A j \in 1..(i - 1) : g[j].kind = "tag" => g[j].a # g[i].a}
        nth(n) == CHOOSE i \in firsts : Cardinality({j \in firsts : j <= i}) = n
    IN  [n \in 1..Cardinality(firsts) |-> g[nth(n)].a]

\* Every route directive of group g has its endpoint in the list, and the
\* endpoints of the paths of g carry the headers, body and tags of g.
Broadcast(g) ==
    /\ \A i \in DOMAIN g : IsRouteLine(g[i]) =>
          \E n \in DOMAIN endpoints :
              /\ endpoints[n].Path = g[i].b
              /\ endpoints[n].Method =
                    IF g[i].kind = "graphql" THEN "POST" ELSE ToUpper(g[i].a)
    /\ \A n \in DOMAIN endpoints :
          (\E i \in DOMAIN g : IsRouteLine(g[i]) /\ g[i].b = endpoints[n].Path) =>
              /\ endpoints[n].Headers = GroupHeaders(g)
              /\ endpoints[n].BodyRaw = GroupBody(g)
              /\ endpoints[n].Tags = GroupTags(g)

\* C9: once the annotations of the file are scanned, every endpoint of a
\* route, rest or graphql directive carries the headers of its own comment
\* group (last value per key), the text of the group's last body directive
\* and the group's tags at their first occurrence, wherever the directives
\* stand relative to the route line and whatever the neighbouring groups
\* hold; the four-line block gives exactly one endpoint with the header
\* Content-Type, the body {"a":1} and the tags [users].
C9_GroupBroadcast ==
    pc \in {"calls", "done"} =>
        /\ Broadcast(GroupBefore)
        /\ Broadcast(MiddleGroup)
        /\ Broadcast(GroupAfter)
        /\ MiddleGroup \in BlockOrders =>
              /\ Len(SelectSeq(endpoints, LAMBDA e : e.Path = "/api/users")) = 1
              /\ \E n \in DOMAIN endpoints :
                    /\ endpoints[n].Method = "POST"
                    /\ endpoints[n].Path = "/api/users"
                    /\ endpoints[n].Headers = [k \in {"Content-Type"} |-> "application/json"]
                    /\ endpoints[n].BodyRaw = "{\"a\":1}"
                    /\ endpoints[n].Tags = <<"users">>

\* The block was scanned with its route line first and gave the endpoint
\* with the header, the body and the tag that follow it.
C9_Witness ==
    /\ pc = "done"
    /\ MiddleGroup = ExampleBlock
    /\ Len(endpoints) = 4
    /\ endpoints[2].Path = "/api/users"
    /\ endpoints[2].BodyRaw = "{\"a\":1}"
    /\ endpoints[2].Tags = <<"users">>
    /\ DOMAIN endpoints[2].Headers = {"Content-Type"}

\* The identifier the handler of the tree binds the body to.
BoundIdentifier == tree[1].funcs[1].stmts[1].call.args[1].val

\* The table of the specification, row by row: keywords and shape.
ShapeTable ==
    << [words |-> {"user"},
        shape |-> "{\"name\":\"string\",\"email\":\"string\",\"id\":\"string\"}"],
       [words |-> {"create", "post"},
        shape |-> "{\"name\":\"string\",\"value\":\"string\",\"type\":\"string\"}"],
       [words |-> {"update", "put", "patch"},
        shape |-> "{\"id\":\"string\",\"name\":\"string\",\"value\":\"string\"}"],
       [words |-> {"delete"},
        shape |-> "{\"id\":\"string\",\"reason\":\"string\"}"],
       [words |-> {"request", "req"},
        shape |-> "{\"data\":\"string\",\"parameters\":{}}"] >>

GenericShape ==
    "{\"id\":\"string\",\"name\":\"string\",\"value\":\"string\",\"timestamp\":\"2024-01-01T00:00:00Z\"}"

\* w occurs in id, letter case aside
Occurs(w, id) ==
    \E i \in 1..(Len(id) - Len(w) + 1) : ToLower(SubSeq(id, i, i + Len(w) - 1)) = w

RowHits(r, id) == \E w \in ShapeTable[r].words : Occurs(w, id)

TableShape(id) ==
    IF \E r \in DOMAIN ShapeTable : RowHits(r, id)
    THEN ShapeTable[CHOOSE r \in DOMAIN ShapeTable :
                        RowHits(r, id) /\ \A q \in 1..(r - 1) : ~RowHits(q, id)].shape
    ELSE GenericShape

TheHandler == tree[1].funcs[1]

IdiomStmts ==
    SelectSeq(TheHandler.stmts, LAMBDA st : st.kind = "call" /\ IsBodyIdiom(st.call))

StructStmts == SelectSeq(TheHandler.stmts, LAMBDA st : st.kind \in {"var", "lit"})

\* The address-of identifier of the first argument of call c, else of the
\* second; "" when neither is one.
TargetOf(c) ==
    IF Len(c.args) >= 1 /\ c.args[1].kind = "addr" THEN c.args[1].val
    ELSE IF Len(c.args) >= 2 /\ c.args[2].kind = "addr" THEN c.args[2].val
    ELSE ""

\* The bodies steps (a) to (d) allow for call c with the inline struct
\* statements hints, over the index of the tree.
FallbackBodies(c, hints) ==
    LET index   == AnalyzeProject(opt.Dir, tree)
        matches == IF TargetOf(c) = "" THEN {} ELSE MatchingStructs(TargetOf(c), index)
    IN  IF matches # {}
        THEN {generateJSONFromProjectStruct(index.Structs[q]) : q \in matches}
        ELSE IF hints # <<>> /\ Len(hints[1].fields) > 0
        THEN {generateJSONFromStruct(analyzeInlineStruct(hints[1].fields))}
        ELSE IF TargetOf(c) # ""
        THEN {generateBodyByVariableName(TargetOf(c))}
        ELSE {"{\"data\":\"string\",\"parameters\":{}}"}

\* C11: for a handler with one idiom call and at most one inline struct,
\* the body of its endpoint is (a) rendered from a project struct that
\* matches the target identifier, if there is one; (b) else rendered from
\* the inline struct, if it has a field; (c) else taken from the
\* variable-name table for the address-of identifier of the first, else of
\* the second argument; (d) else the literal {"data":"string","parameters":{}}.
C11_StrictFallback ==
    (pc = "done" /\ Len(IdiomStmts) = 1 /\ Len(StructStmts) <= 1) =>
        /\ Len(endpoints) = 1
        /\ endpoints[1].BodyRaw \in FallbackBodies(IdiomStmts[1].call, StructStmts)

\* The handler declared an inline struct and decoded into item while the
\* project declares Item: the body is the one of Item.
C11_Witness ==
    /\ pc = "done"
    /\ tree[1].types # <<>>
    /\ tree[1].types[1].Name = "Item"
    /\ TheHandler.stmts =
          <<VarStmt(NameAge),
            CallStmt(Chain(Call("json", "NewDecoder", <<SelArg("Body")>>),
                           "Decode", <<Addr("item")>>))>>
    /\ Len(endpoints) = 1
    /\ endpoints[1].BodyRaw = "{\"id\":0,\"secret\":\"string\"}"

\* C12: the body of the handler's endpoint is derived from the first call of
\* the handler that matches an idiom, whatever matching calls follow it: for
\* io.ReadAll(r.Body) followed by json.Unmarshal(body, &user) it is the one
\* of the io.ReadAll call.
C12_FirstIdiomWins ==
    (pc = "done" /\ Len(IdiomStmts) >= 1 /\ Len(StructStmts) <= 1) =>
        /\ Len(endpoints) = 1
        /\ endpoints[1].BodyRaw \in FallbackBodies(IdiomStmts[1].call, StructStmts)

\* The handler has a body with a call of one of the four idioms.
ConsumesBody == TheHandler.hasBody /\ IdiomStmts # <<>>

\* C13: DetectJSONBody reports a body exactly for a function that has a body
\* with a call of one of the four idioms, never with an empty example, and
\* reports no body and an empty example otherwise; DetectBodyFromFunction
\* is "" exactly when there is no such call, and after the first pass the
\* map of function bodies has an entry for the handler exactly when there
\* is one.
C13_HasBodyIffIdiom ==
    /\ \A r \in DetectJSONBody(TheHandler, globalProjectAnalysis) :
          /\ r.HasBody <=> ConsumesBody
          /\ r.HasBody => r.BodyExample # ""
          /\ ~r.HasBody => r.BodyExample = ""
    /\ \A b \in DetectBodyFromFunction(TheHandler, globalProjectAnalysis) :
          b = "" <=> ~ConsumesBody
    /\ pc \in {"annotations", "calls", "done"} =>
          ("handler" \in DOMAIN globalFunctionBodies <=> ConsumesBody)
    /\ pc = "done" => (endpoints[1].BodyRaw = "" <=> ~ConsumesBody)

\* The scan of a handler that only calls io.ReadAll(r.Body) indexed a body
\* for it.
C13_Witness ==
    /\ pc = "done"
    /\ TheHandler.stmts = <<CallStmt(Call("io", "ReadAll", <<SelArg("Body")>>))>>
    /\ "handler" \in DOMAIN globalFunctionBodies
    /\ globalFunctionBodies["handler"] # ""

\* The key of a field called name with the tag (<<>>: none): the json name
\* of the tag without its options, else the lower-cased field name.
KeyOf(name, tag) ==
    IF tag # <<>> /\ extractJSONTag(tag[1]) # "" THEN extractJSONTag(tag[1])
    ELSE ToLower(name)

\* One "key":value pair for every field the declarations declare, in order.
RECURSIVE PairsOf(_)
PairsOf(decls) ==
    IF decls = <<>> THEN <<>>
    ELSE [i \in 1..Len(Head(decls).Names) |->
             "\"" \o KeyOf(Head(decls).Names[i], Head(decls).Tag) \o "\":"
                  \o generateValueForType(Head(decls).Type)]
         \o PairsOf(Tail(decls))

\* C14: a body rendered from the inline struct of the handler is the
\* comma-separated list, in braces, of one "key":value pair per field in
\* declaration order, the key being the json tag name without options or
\* else the lower-cased field name; for {Name string `json:"name"`; Age int
\* `json:"age"`} it is {"name":"string","age":0}.
C14_OnePairPerField ==
    (/\ pc = "done"
     /\ tree[1].types = <<>>
     /\ IdiomStmts # <<>>
     /\ Len(StructStmts) = 1
     /\ Len(StructStmts[1].fields) > 0) =>
        /\ endpoints[1].BodyRaw = "{" \o Join(PairsOf(StructStmts[1].fields), ",") \o "}"
        /\ StructStmts[1].fields = NameAge =>
              endpoints[1].BodyRaw = "{\"name\":\"string\",\"age\":0}"

\* The type of the one field of the handler's inline struct.
FieldType == TheHandler.stmts[1].fields[1].Type

IntegerTypes ==
    {"int", "int8", "int16", "int32", "int64", "uint", "uint8", "uint16", "uint32", "uint64"}

\* The example value of a type name, as the specification lists it.
RECURSIVE ValueOf(_)
ValueOf(t) ==
    IF t = "string" THEN "\"string\""
    ELSE IF t \in IntegerTypes THEN "0"
    ELSE IF t \in {"float32", "float64"} THEN "0.0"
    ELSE IF t = "bool" THEN "false"
    ELSE IF Len(t) >= 2 /\ SubSeq(t, 1, 2) = "[]"
         THEN "[" \o ValueOf(SubSeq(t, 3, Len(t))) \o "]"
    ELSE IF Len(t) >= 4 /\ SubSeq(t, 1, 4) = "map[" THEN "{}"
    ELSE "\"string\""

\* C15: the value synthesizer gives "string" for string, 0 for each of the
\* ten integer type names, 0.0 for the two float types, false for bool, a
\* one-element array of the element's value for a slice, {} for a map and
\* "string" for every other name; the body of the handler's endpoint shows
\* that value for the field.
C15_ValueOfType ==
    /\ generateValueForType(FieldType) = ValueOf(FieldType)
    /\ pc = "done" => endpoints[1].BodyRaw = "{\"v\":" \o ValueOf(FieldType) \o "}"

\* C16: the project declares Item with the fields ID (json "id") and Secret
\* (json "-"); a handler whose one idiom call decodes into item gets the
\* body rendered from Item, and the body has no key for Secret.
C16_ExcludedFieldSkipped ==
    (/\ pc = "done"
     /\ tree[1].types # <<>>
     /\ tree[1].types[1].Name = "Item"
     /\ Len(IdiomStmts) = 1
     /\ TargetOf(IdiomStmts[1].call) = "item") =>
        endpoints[1].BodyRaw = "{\"id\":0}"

\* C17: in a tree that declares createUser, which consumes the user-shaped
\* body, a file whose only route is
\* r.HandleFunc("/users", createUser).Methods("GET", "post") gives a POST
\* endpoint that carries that body and a GET endpoint with an empty body.
C17_ChainBodyPerVerb ==
    (pc = "done" /\ \E g \in DOMAIN tree : tree[g].funcs = <<createUser>>) =>
        \A f \in DOMAIN tree :
            (tree[f].calls = <<usersChain>> /\ tree[f].groups = <<>>) =>
                \A i \in 1..Len(FromFile(tree[f].name)) :
                    /\ FromFile(tree[f].name)[i].Method \in {"POST", "PUT", "PATCH"}
                          => FromFile(tree[f].name)[i].BodyRaw = UserShape
                    /\ FromFile(tree[f].name)[i].Method \in {"GET", "DELETE", "HEAD", "OPTIONS"}
                          => FromFile(tree[f].name)[i].BodyRaw = ""

\* The files below the root that no skipped sub-directory and no file test
\* hides.
InScope(f) == isGoSource(f.name) /\ \A i \in DOMAIN f.dirs : ~skipDir(f.dirs[i])

\* C18: scanning with the root "." discovers the endpoints of the current
\* directory: the skip rule prunes sub-directories only, never the root, so
\* after a scan without error every parsable source file in scope has
\* contributed its route.
C18_RootDotScanned ==
    (pc = "done" /\ err = "" /\ opt.Dir = ".") =>
        \A f \in DOMAIN tree :
            (InScope(tree[f]) /\ ~tree[f].broken) => FromFile(tree[f].name) # <<>>

\* What ScanDirWithOpts returned, as "METHOD path" strings.
Returned == {ToUpper(ret.eps[i].Method) \o " " \o ret.eps[i].Path : i \in DOMAIN ret.eps}

\* C19: with UseTypes set, the routes registered on a sub-router or group
\* are returned with the prefix of the group in front of their path.
C19_PrefixesPrepended ==
    (ret # Nil /\ opt.UseTypes) =>
        /\ tree[1].calls = <<Chain(Call("r", "PathPrefix", <<Str("/api")>>), "Subrouter", <<>>),
                             Chain(Call("sub", "HandleFunc", <<Str("/users"), Ident("handler")>>),
                                   "Methods", <<Str("GET"), Str("POST")>>)>>
              => {"GET /api/users", "POST /api/users"} \subseteq Returned
        /\ tree[1].calls = <<Call("c", "Route", <<Str("/v1"), Other>>),
                             Call("sr", "Get", <<Str("/books"), Ident("handler")>>)>>
              => "GET /v1/books" \in Returned
        /\ tree[1].calls = <<Call("e", "Group", <<Str("/v2")>>),
                             Call("g", "GET", <<Str("/status"), Other>>)>>
              => "GET /v2/status" \in Returned
        /\ tree[1].calls = <<Call("app", "Group", <<Str("/v3")>>),
                             Call("grp", "Post", <<Str("/login"), Other>>)>>
              => "POST /v3/login" \in Returned

BrokenIn(files) == {files[i].name : i \in {j \in DOMAIN files : files[j].broken}}

\* C21: when a source file the walk reaches does not parse, AnalyzeProject
\* returns no analysis and an error that wraps the parse error and names the
\* file, and ScanDir returns an error naming the file and no endpoints; a
\* missing go.mod gives an empty module name and no error.
C21_ParseFailureFatal ==
    /\ BrokenIn(analyzedFiles(opt.Dir, tree)) # {} =>
          /\ AnalyzeProject(opt.Dir, tree) = Nil
          /\ HasPrefix(analyzeProjectError(opt.Dir, tree), "failed to analyze project: ")
          /\ \E n \in BrokenIn(analyzedFiles(opt.Dir, tree)) :
                 Contains(analyzeProjectError(opt.Dir, tree), "parse " \o n \o ": ")
    /\ (pc = "done" /\ BrokenIn(scanFiles) # {}) =>
          /\ \E n \in BrokenIn(scanFiles) : Contains(err, n)
          /\ endpoints = <<>>
    /\ (BrokenIn(analyzedFiles(opt.Dir, tree)) = {}
        /\ \A f \in DOMAIN tree : tree[f].name # walkPath(opt.Dir, "go.mod")) =>
          /\ analyzeProjectError(opt.Dir, tree) = ""
          /\ AnalyzeProject(opt.Dir, tree) # Nil
          /\ AnalyzeProject(opt.Dir, tree).ModuleName = ""

\* ScanDir has returned on a tree without go.mod that holds a file with a
\* route and a file that does not parse, both reached by the two walks.
C21_Witness ==
    /\ pc = "done"
    /\ err # ""
    /\ \A f \in DOMAIN tree : tree[f].name # walkPath(opt.Dir, "go.mod")
    /\ \E i, j \in DOMAIN scanFiles :
           /\ scanFiles[i].broken
           /\ ~scanFiles[j].broken /\ scanFiles[j].calls # <<>>
    /\ BrokenIn(analyzedFiles(opt.Dir, tree)) # {}

\* The four scores of the analysis the scan has stored, in sixtieths.
ArchScores ==
    LET packages == globalProjectAnalysis.Packages
    IN  [clean        |-> detectCleanArchitecture(DOMAIN packages \ {"main"}),
         mvc          |-> detectMVC(DOMAIN packages \ {"main"}),
         layered      |-> detectLayeredArchitecture(DOMAIN packages \ {"main"}),
         microservice |-> detectMicroservicePattern(packages)]

\* C22: the detected pattern is a family with the highest score, and when
\* every score is zero the pattern has type "unknown" and confidence 0.
C22_HighestOrUnknown ==
    globalProjectAnalysis # Nil =>
        LET pattern == globalProjectAnalysis.ArchPattern
            zero    == \A t \in DOMAIN ArchScores : ArchScores[t] = 0
        IN  /\ ~zero => /\ pattern.Type \in DOMAIN ArchScores
                        /\ ArchScores[pattern.Type] = pattern.Confidence
                        /\ \A t \in DOMAIN ArchScores : ArchScores[t] <= pattern.Confidence
            /\ zero => pattern.Type = "unknown" /\ pattern.Confidence = 0

\* The request leaves below a list of items, folders opened, in order.
RECURSIVE Leaves(_)
Leaves(items) ==
    IF items = <<>> THEN <<>>
    ELSE (IF IsFolder(Head(items)) THEN Leaves(Head(items).Item) ELSE <<Head(items)>>)
         \o Leaves(Tail(items))

\* The collection without its "By Tag" folder.
MainTree == SelectSeq(collection.Item, LAMBDA it : ~(IsFolder(it) /\ it.Name = "By Tag"))

OwnHeaders(e) == {[Key |-> k, Value |-> e.Headers[k]] : k \in DOMAIN e.Headers}

\* The request the documentation promises for an endpoint.
RequestAsDocumented(e, r) ==
    IF e.Type = "GraphQL"
    THEN LET query == IF e.GraphQL # Nil /\ e.GraphQL.Query # "" THEN e.GraphQL.Query
                      ELSE IF e.GraphQL # Nil /\ e.GraphQL.Operation \in {"mutation", "subscription"}
                      THEN e.GraphQL.Operation \o " { # Add your " \o e.GraphQL.Operation \o " here }"
                      ELSE "query { # Add your query here }"
             variables == IF e.GraphQL # Nil THEN e.GraphQL.Variables ELSE ""
         IN  /\ r.Body # Nil
             /\ r.Body.Mode = "raw"
             /\ Contains(r.Body.Raw, "\"query\":\"" \o jsonString(query) \o "\"")
             /\ Contains(r.Body.Raw, "\"variables\":") <=> variables # ""
             /\ variables # "" =>
                   Contains(r.Body.Raw, "\"variables\":\"" \o jsonString(variables) \o "\"")
    ELSE IF e.BodyRaw # ""
    THEN /\ r.Body # Nil
         /\ r.Body.Mode = "raw"
         /\ r.Body.Raw = e.BodyRaw
         /\ r.Body.Options.raw.language = "json"
         /\ Cardinality({h \in r.Header : ToLower(h.Key) = "content-type"}) = 1
         /\ IF \E h \in OwnHeaders(e) : ToLower(h.Key) = "content-type"
            THEN r.Header = OwnHeaders(e)
            ELSE r.Header = OwnHeaders(e)
                            \cup {[Key |-> "Content-Type", Value |-> "application/json"]}
    ELSE /\ r.Body = Nil
         /\ r.Header = OwnHeaders(e)

\* C23: in the collection every endpoint has a request leaf with the body and
\* the Content-Type header the documentation promises: a REST endpoint with a
\* body keeps its own Content-Type or gets application/json, one without a
\* body gets neither, a GraphQL endpoint gets a JSON body with its query (or
\* the default of its operation) and its non-empty variables.
C23_RequestBodyAndHeader ==
    pc = "built" =>
        \A i \in DOMAIN endpoints :
            \E k \in DOMAIN Leaves(MainTree) :
                /\ Leaves(MainTree)[k].Name = endpoints[i].Method \o " " \o endpoints[i].Path
                /\ RequestAsDocumented(endpoints[i], Leaves(MainTree)[k].Request)

\* A collection was built from a REST endpoint with a body and a lower-case
\* content-type header, a REST endpoint with a body and no header, and a
\* GraphQL mutation without query text.
C23_Witness ==
    /\ pc = "built"
    /\ \E i \in DOMAIN endpoints :
          /\ endpoints[i].Type = "REST"
          /\ endpoints[i].BodyRaw # ""
          /\ "content-type" \in DOMAIN endpoints[i].Headers
    /\ \E i \in DOMAIN endpoints :
          /\ endpoints[i].Type = "REST"
          /\ endpoints[i].BodyRaw # ""
          /\ DOMAIN endpoints[i].Headers = {}
    /\ \E i \in DOMAIN endpoints :
          /\ endpoints[i].Type = "GraphQL"
          /\ endpoints[i].GraphQL.Query = ""
          /\ endpoints[i].GraphQL.Operation = "mutation"

\* The bodies a scan may give the handler h when it synthesizes them from
\* the analysis of its own root alone (none when that analysis failed).
OwnBodies(h) ==
    LET declared == {fn \in UNION {{scanFiles[f].funcs[k] : k \in DOMAIN scanFiles[f].funcs} :
                                        f \in DOMAIN scanFiles} : fn.name = h}
    IN  UNION {DetectBodyFromFunction(fn, AnalyzeProject(opt.Dir, tree)) : fn \in declared}

\* C24: over a sequence of ScanDir calls in one process, the bodies of a
\* call come from the analysis that call built from its own root, or from
\* none when it failed; an earlier call's struct index has no influence.
C24_OwnAnalysisOnly ==
    pc = "done" =>
        \A i \in DOMAIN endpoints :
            endpoints[i].Handler # "" => endpoints[i].BodyRaw \in OwnBodies(endpoints[i].Handler)

\* The @graphql directives of the scanned files.
GraphQLDirectives ==
    UNION {UNION {{tree[f].groups[g].lines[k] : k \in
                      {j \in DOMAIN tree[f].groups[g].lines :
                          tree[f].groups[g].lines[j].kind = "graphql"}} :
                  g \in DOMAIN tree[f].groups} : f \in DOMAIN tree}

\* C25: every endpoint that comes from a @graphql directive carries the
\* operation kind named in that directive, also when directives of several
\* kinds stand in one comment group.
C25_OwnOperationKind ==
    pc = "done" =>
        \A i \in DOMAIN endpoints :
            endpoints[i].Type = "GraphQL" =>
                \E d \in GraphQLDirectives :
                    /\ d.b = endpoints[i].Path
                    /\ endpoints[i].GraphQL.Operation = ToLower(d.a)

\* C26: the local struct hint of a function is the first variable
\* declaration or composite literal of inline struct type in its body; a
\* later inline struct does not replace it, and the body of the endpoint is
\* rendered from the first one when the hint is used.
C26_FirstInlineStructKept ==
    StructStmts # <<>> =>
        /\ scanStructUsage(TheHandler) = analyzeInlineStruct(StructStmts[1].fields)
        /\ (pc = "done" /\ Len(IdiomStmts) = 1) =>
               endpoints[1].BodyRaw \in FallbackBodies(IdiomStmts[1].call, StructStmts)

\* The directives of the comment group of the file, by kind.
Directives(kind) == SelectSeq(tree[1].groups[1].lines, LAMBDA l : l.kind = kind)

AnnotatedRoutes == SelectSeq(tree[1].groups[1].lines, LAMBDA l : l.kind \in {"route", "rest"})

\* The last directive of the kind, "" when there is none.
LastText(kind) ==
    IF Directives(kind) = <<>> THEN "" ELSE Directives(kind)[Len(Directives(kind))].a

\* C27: in a file that annotates POST /users and registers it by a call, the
\* annotation's endpoint comes first; without a tag the list has exactly one
\* endpoint for the route, the annotation's, with its description, headers
\* and body and without the call's handler and detected body; with a tag
\* both endpoints are kept.
C27_AnnotationBeforeCall ==
    (pc = "done" /\ AnnotatedRoutes # <<>>) =>
        /\ endpoints[1].Handler = ""
        /\ endpoints[1].Desc = AnnotatedRoutes[1].c
        /\ endpoints[1].BodyRaw = LastText("body")
        /\ DOMAIN endpoints[1].Headers = {Directives("header")[k].a : k \in DOMAIN Directives("header")}
        /\ Directives("tag") = <<>> => Len(endpoints) = 1
        /\ Directives("tag") # <<>> =>
              /\ Len(endpoints) = 2
              /\ endpoints[1].Tags = <<"users">>
              /\ endpoints[2].Tags = <<>>
              /\ endpoints[2].Handler = "decodeUser"
              /\ endpoints[2].BodyRaw # ""

\* The scan ended on a file whose annotation of POST /users has a header and
\* no body and no tag: the call's endpoint was dropped.
C27_Witness ==
    /\ pc = "done"
    /\ AnnotatedRoutes # <<>>
    /\ Directives("header") # <<>>
    /\ Directives("tag") = <<>>
    /\ Directives("body") = <<>>
    /\ globalFunctionBodies["decodeUser"] # ""

-----------------------------------------------------------------------------
\* Project structs named by a bare suffix

MaxBareStmts == 2

\* Struct names that are, ignoring case, one of the suffixes of
\* isStructNameMatch.
BareNames == {"Request", "Req", "DTO", "Model", "Entity", "Response", "Resp"}

BareStruct(name) ==
    [Name |-> name, Fields |-> <<Field("Token", "string", <<"json:\"token\"">>)>>]

InitBare ==
    \E name \in BareNames : \E stmts \in SeqsUpTo(StmtPool, MaxBareStmts) :
        Start(<<SourceFile(BodyFile[1], <<>>, FALSE, <<BareStruct(name)>>,
                           <<Func("handler", stmts)>>,
                           <<Call("r", "Post", <<Str("/items"), Ident("handler")>>)>>)>>)

SpecBare == InitBare /\ [][Next]_vars

\* The project index holds a struct whose lower-cased name is one of the
\* suffixes.
BareIndexed ==
    /\ AnalyzeProject(opt.Dir, tree) # Nil
    /\ \E q \in DOMAIN AnalyzeProject(opt.Dir, tree).Structs :
          \E i \in 1..Len(DTOSuffixes) :
              ToLower(AnalyzeProject(opt.Dir, tree).Structs[q].Name) = DTOSuffixes[i]

\* The bodies rendered from the structs of the project index.
ProjectRenders ==
    {generateJSONFromProjectStruct(AnalyzeProject(opt.Dir, tree).Structs[q]) :
        q \in DOMAIN AnalyzeProject(opt.Dir, tree).Structs}

\* The call whose body the handler keeps.
LastIdiom == matchedCalls(TheHandler)[Len(matchedCalls(TheHandler))]

Scanned == pc = "done" /\ BareIndexed /\ matchedCalls(TheHandler) # <<>>

\* C28: when the project index holds a struct named by a bare suffix, every
\* handler whose kept decode call has an address-of identifier gets its body
\* from a project struct, never from its inline struct or the variable-name
\* table; a handler whose kept call has no such identifier gets the body of its
\* inline struct, or the generic body when it declares none.
C28_BareSuffixMatchesTargets ==
    Scanned =>
        IF TargetOf(LastIdiom) # ""
        THEN endpoints[1].BodyRaw \in ProjectRenders
        ELSE endpoints[1].BodyRaw = localBodyExample(LastIdiom, scanStructUsage(TheHandler))

C28_Witness ==
    /\ Scanned
    /\ TargetOf(LastIdiom) = "item"
    /\ scanStructUsage(TheHandler) # Nil
    /\ Len(scanStructUsage(TheHandler).Fields) > 0
    /\ endpoints[1].BodyRaw \in ProjectRenders
    /\ endpoints[1].BodyRaw # generateJSONFromStruct(scanStructUsage(TheHandler))
    /\ endpoints[1].BodyRaw # generateBodyByVariableName("item")

\* C28 as stated: with such a struct in the index no handler of the project
\* gets its body from its inline struct or from the variable-name table.
C28_HintNeverUsed ==
    Scanned =>
        ~ /\ scanStructUsage(TheHandler) # Nil
          /\ Len(scanStructUsage(TheHandler).Fields) > 0
          /\ endpoints[1].BodyRaw = generateJSONFromStruct(scanStructUsage(TheHandler))
          /\ endpoints[1].BodyRaw \notin ProjectRenders

\* The request leaves that are direct children of the folder reached from the
\* items by a chain of folder names (of every such folder when a name repeats).
RECURSIVE LeavesUnder(_, _)
LeavesUnder(items, chain) ==
    IF chain = <<>> THEN SelectSeq(items, LAMBDA it : ~IsFolder(it))
    ELSE LET named == SelectSeq(items, LAMBDA it : IsFolder(it) /\ it.Name = Head(chain))
             RECURSIVE all(_)
             all(fs) == IF fs = <<>> THEN <<>>
                        ELSE LeavesUnder(Head(fs).Item, Tail(chain)) \o all(Tail(fs))
         IN  all(named)

\* The folder chain the documentation gives an endpoint.
ChainOf(e) ==
    LET segments == SelectSeq(splitPath(e.Path), LAMBDA s : s # "")
        depth    == IF buildOpts.GroupDepth < 0 THEN 0 ELSE buildOpts.GroupDepth
        n        == IF depth < Len(segments) THEN depth ELSE Len(segments)
    IN  SubSeq(segments, 1, n)
        \o (IF buildOpts.GroupByMethod THEN <<ToUpper(e.Method)>> ELSE <<>>)

TagNames ==
    UNION {{TrimSpace(endpoints[i].Tags[k]) : k \in DOMAIN endpoints[i].Tags} :
              i \in DOMAIN endpoints}
    \ {""}

ByTagFolders == SelectSeq(collection.Item, LAMBDA it : IsFolder(it) /\ it.Name = "By Tag")

\* C29: the main tree of the collection has one request leaf per endpoint,
\* each under the folders of the first GroupDepth segments of its path (a
\* negative depth counts as 0) and, with GroupByMethod, under a folder named
\* after its upper-cased method; the "By Tag" folder exists exactly when
\* TagFolders is set and some endpoint has a non-blank tag, and holds one
\* folder per distinct tag in sorted order.
C29_LeafPerEndpointInChain ==
    pc = "built" =>
        /\ Len(Leaves(MainTree)) = Len(endpoints)
        /\ \A i \in DOMAIN endpoints :
              \E k \in DOMAIN LeavesUnder(MainTree, ChainOf(endpoints[i])) :
                  LeavesUnder(MainTree, ChainOf(endpoints[i]))[k] = buildLeafItem(endpoints[i])
        /\ \A chain \in {ChainOf(endpoints[i]) : i \in DOMAIN endpoints} :
              Len(LeavesUnder(MainTree, chain))
                  = Cardinality({i \in DOMAIN endpoints : ChainOf(endpoints[i]) = chain})
        /\ Len(ByTagFolders) = (IF buildOpts.TagFolders /\ TagNames # {} THEN 1 ELSE 0)
        /\ \A b \in DOMAIN ByTagFolders :
              /\ b = 1
              /\ collection.Item[Len(collection.Item)] = ByTagFolders[b]
              /\ {ByTagFolders[b].Item[j].Name : j \in DOMAIN ByTagFolders[b].Item} = TagNames
              /\ Len(ByTagFolders[b].Item) = Cardinality(TagNames)
              /\ \A j \in DOMAIN ByTagFolders[b].Item :
                    /\ IsFolder(ByTagFolders[b].Item[j])
                    /\ j > 1 => StrLess(ByTagFolders[b].Item[j - 1].Name,
                                        ByTagFolders[b].Item[j].Name)

\* A collection built with depth 2 and method folders from /api/v1/items and a
\* second path, with the tag folders admin and users.
C29_Witness ==
    /\ pc = "built"
    /\ buildOpts.GroupDepth = 2
    /\ buildOpts.GroupByMethod
    /\ buildOpts.TagFolders
    /\ Len(endpoints) >= 3
    /\ LeavesUnder(MainTree, <<"api", "v1", "POST">>) # <<>>
    /\ LeavesUnder(MainTree, <<"users", "1", "PUT">>) # <<>>
    /\ Len(ByTagFolders) = 1
    /\ Len(ByTagFolders[1].Item) = 2
    /\ ByTagFolders[1].Item[1].Name = "admin"

-----------------------------------------------------------------------------
\* Architecture patterns another analysis of the same structs could carry: DTO
\* patterns are struct names, which are Go identifiers.
AltPatterns ==
    [Type : {"unknown", "mvc"}, Confidence : {0, 60}, Layers : {{}},
     DTOPatterns : {{}, {"Item", "CreateItemRequest", "req"}}]

WithPattern(pattern) == [globalProjectAnalysis EXCEPT !.ArchPattern = pattern]

\* C30: the body synthesized for a function is the same under every
\* architecture pattern: an analysis with the same struct index and another
\* pattern type, confidence or DTO-pattern list yields the same bodies, and
\* the endpoint of the handler carries one of them.
C30_BodyIgnoresPattern ==
    (pc = "done" /\ globalProjectAnalysis # Nil) =>
        LET bodies == DetectBodyFromFunction(TheHandler, globalProjectAnalysis)
        IN  /\ \A alt \in AltPatterns :
                  DetectBodyFromFunction(TheHandler, WithPattern(alt)) = bodies
            /\ endpoints[1].BodyRaw \in bodies

\* The handler decodes into &req, the index holds CreateItemRequest, which is
\* the detected DTO pattern, and the body comes from that struct.
C30_Witness ==
    /\ pc = "done"
    /\ globalProjectAnalysis # Nil
    /\ matchedCalls(TheHandler) # <<>>
    /\ TargetOf(matchedCalls(TheHandler)[Len(matchedCalls(TheHandler))]) = "req"
    /\ globalProjectAnalysis.ArchPattern.DTOPatterns = {"CreateItemRequest"}
    /\ "main.CreateItemRequest" \in DOMAIN globalProjectAnalysis.Structs
    /\ endpoints[1].BodyRaw
          = generateJSONFromProjectStruct(globalProjectAnalysis.Structs["main.CreateItemRequest"])
    /\ \E alt \in AltPatterns :
          /\ alt.DTOPatterns = {}
          /\ alt.Type # globalProjectAnalysis.ArchPattern.Type

=============================================================================
